---- MODULE Spec2Model ----
(***************************************************************************)
(* Request chaining in the Insomnia client: InsomniaClient.request,        *)
(* ParseScriptTemplate / processTemplateString, the `response` directive   *)
(* (processResponseTemplate, resolveResponseTemplate,                      *)
(* processResponseForTemplate), its cache policy and the in-memory cache   *)
(* driver.                                                                 *)
(*                                                                         *)
(* A call chain (one top-level client.request and everything it awaits)    *)
(* is a stack of frames, one frame per client.request in progress.  The    *)
(* clock is Date.now() in milliseconds.                                    *)
(***************************************************************************)
EXTENDS Integers, Sequences, FiniteSets, TLC

(***************************************************************************)
(* Bounds of the model.                                                    *)
(***************************************************************************)
MaxTicks == 1          \* the clock advances at most this many seconds
MaxCalls == 2          \* top-level client.request calls over all chains
MaxDepth == 5          \* frames per call chain (never reached by the code)

MsPerSecond == 1000    \* maxAge * 1000
Chains == {1, 2}
Clients == {"A", "B"}

Undefined == "undefined"       \* the JavaScript value undefined
NaN == -1                      \* parseInt's NaN

(***************************************************************************)
(* String functions of the code, on the strings the collections use.       *)
(***************************************************************************)
B64Token == "JC5hY2Nlc3NfdG9rZW4="
B64Wrapped == "b64::JC5hY2Nlc3NfdG9rZW4=::46b"

\* pathContent.startsWith('b64::') && pathContent.endsWith('::46b')
IsB64Wrapped(s) == s = B64Wrapped

\* atob(pathContent.slice(5, -5))
AtobUnwrapped(s) == IF s = B64Wrapped THEN "$.access_token" ELSE s

\* startsWith('/') || includes('//') || includes('@')
IsXPathLike(s) == s \in {"//token", "/root/token", "//a/@href", "//a", "//@href", "/token", "/a/@href"}

\* parseInt(arg, 10)
ParseInt(s) ==
    CASE s = "1" -> 1
      [] s = "2" -> 2
      [] s = "3600" -> 3600
      [] s = "0" -> 0
      [] OTHER -> NaN

\* path.replace(/^\$?\.?/, "").split(".")
JsonPathParts(p) ==
    CASE p = "$.access_token" -> <<"access_token">>
      [] p = "$.data.token" -> <<"data", "token">>
      [] p = "$.data.n" -> <<"data", "n">>
      [] p = "$.data.none" -> <<"data", "none">>
      [] p = "$.data.empty" -> <<"data", "empty">>
      [] p = "$.data.missing" -> <<"data", "missing">>
      [] p = "$.data.none.x" -> <<"data", "none", "x">>
      [] p = "$.access_token.x" -> <<"access_token", "x">>
      [] p = "$.data" -> <<"data">>
      [] p = "$.constructor" -> <<"constructor">>
      [] p = "$.data.toString" -> <<"data", "toString">>
      [] p = "$" -> <<"">>
      [] OTHER -> <<p>>

ExpiryModes == {"when-expired", "never", "no-history", "always"}

Arg(args, i) == IF i <= Len(args) THEN args[i] ELSE ""

(***************************************************************************)
(* processResponseTemplate: the parsed arguments to a ResponseTemplate.    *)
(* "" is an absent string, 0 an absent maxAge.                             *)
(***************************************************************************)
ParsePath(a3) ==
    LET pathContent == IF IsB64Wrapped(a3) THEN AtobUnwrapped(a3) ELSE a3
    IN  IF a3 = "" THEN [jsonPath |-> "", xPath |-> ""]
        ELSE IF IsXPathLike(pathContent)
             THEN [jsonPath |-> "", xPath |-> pathContent]
             ELSE [jsonPath |-> pathContent, xPath |-> ""]

ParseExpiryMode(a4) == IF a4 \in ExpiryModes THEN a4 ELSE ""

ParseMaxAge(a5) ==
    IF a5 # "" /\ ParseInt(a5) # NaN /\ ParseInt(a5) > 0 THEN ParseInt(a5) ELSE 0

TemplateArgsValid(args) == Len(args) >= 3 /\ args[2] # "" /\ args[3] # ""

ParseResponseTemplate(args) ==
    [requestId |-> args[3],
     field |-> args[2],
     jsonPath |-> ParsePath(Arg(args, 4)).jsonPath,
     xPath |-> ParsePath(Arg(args, 4)).xPath,
     expiryMode |-> ParseExpiryMode(Arg(args, 5)),
     maxAge |-> ParseMaxAge(Arg(args, 6))]

(***************************************************************************)
(* The cache policy.                                                       *)
(***************************************************************************)
\* a policy under which `always` reads the cache like `never`
shouldUseCacheAlways(expiryMode, maxAge) ==
    CASE expiryMode = "never" -> TRUE
      [] expiryMode = "always" -> TRUE
      [] expiryMode = "no-history" -> FALSE
      [] OTHER -> maxAge # 0

shouldUseCache(expiryMode, maxAge) ==
    CASE expiryMode = "never" -> TRUE
      [] expiryMode = "always" -> FALSE
      [] expiryMode = "no-history" -> FALSE
      [] OTHER -> maxAge # 0

\* a policy under which when-expired writes without a maxAge
shouldCacheResultUnaged(expiryMode, maxAge) ==
    CASE expiryMode = "never" -> TRUE
      [] expiryMode = "always" -> TRUE
      [] expiryMode = "no-history" -> FALSE
      [] OTHER -> TRUE

\* a policy under which no-history writes like always
shouldCacheResultNoHistory(expiryMode, maxAge) ==
    CASE expiryMode = "never" -> TRUE
      [] expiryMode = "always" -> TRUE
      [] expiryMode = "no-history" -> TRUE
      [] OTHER -> maxAge # 0

shouldCacheResult(expiryMode, maxAge) ==
    CASE expiryMode = "never" -> TRUE
      [] expiryMode = "always" -> TRUE
      [] expiryMode = "no-history" -> FALSE
      [] OTHER -> maxAge # 0

\* a key without the expiry mode
CacheKeyOfThree(template) ==
    <<"response_template",
      template.requestId,
      template.field,
      IF template.jsonPath # "" THEN template.jsonPath
      ELSE IF template.xPath # "" THEN template.xPath ELSE "none">>

\* `response_template:${requestId}:${field}:${jsonPath || xPath || "none"}:${expiryMode || "default"}`
CacheKey(template) ==
    <<"response_template",
      template.requestId,
      template.field,
      IF template.jsonPath # "" THEN template.jsonPath
      ELSE IF template.xPath # "" THEN template.xPath ELSE "none",
      IF template.expiryMode # "" THEN template.expiryMode ELSE "default">>

\* maxAge ? maxAge * 1000 : undefined   (0 is no ttl)
CacheTtl(maxAge) == IF maxAge # 0 THEN maxAge * MsPerSecond ELSE 0

(***************************************************************************)
(* HTTP responses.  A body is its text (raw) and, when the text is JSON,   *)
(* the object JSON.parse gives for it (obj: property -> string).           *)
(***************************************************************************)
JsonText(v) ==
    CASE v = "T1" -> "{\"access_token\":\"T1\"}"
      [] v = "T2" -> "{\"access_token\":\"T2\"}"
      [] OTHER -> "{\"access_token\":\"\"}"

TokenResponse(v) ==
    [status |-> "200", json |-> TRUE, raw |-> JsonText(v), obj |-> ("access_token" :> v)]

TextResponse(s) ==
    [status |-> "200", json |-> FALSE, raw |-> s, obj |-> <<>>]

\* a falsy JavaScript value among those a cached string takes: "" and undefined
Falsy(v) == v = "" \/ v = Undefined

(***************************************************************************)
(* The JavaScript values an extraction meets: t is the value's kind, s the *)
(* text String(value) gives for it, props the own properties of an object. *)
(***************************************************************************)
JsonString(s) == [t |-> "string", s |-> s, props |-> <<>>]
JsonNumber(text) == [t |-> "number", s |-> text, props |-> <<>>]
JsonNull == [t |-> "null", s |-> "null", props |-> <<>>]
JsonObject(props) == [t |-> "object", s |-> "[object Object]", props |-> props]
JsonUndefined == [t |-> "undefined", s |-> Undefined, props |-> <<>>]

\* the members every object literal inherits from Object.prototype (two of them)
ObjectPrototype == {"constructor", "toString"}
JsonFunction(name) ==
    [t |-> "function",
     s |-> IF name = "constructor" THEN "function Object() { [native code] }"
           ELSE "function toString() { [native code] }",
     props |-> <<>>]

\* !value
JsonFalsy(v) ==
    \/ v.t \in {"undefined", "null"}
    \/ v.t = "string" /\ v.s = ""
    \/ v.t = "number" /\ v.s \in {"0", "NaN"}

\* bodies with nested values, a JSON string, a JSON null, a JSON number
NestedText == "{\"data\":{\"token\":\"T1\",\"n\":42,\"none\":null,\"empty\":\"\"},\"access_token\":\"T2\"}"
QuotedText == "\"abc\""
NullText == "null"
NumberBodyText == "42"

\* JSON.parse(text): the value, or the SyntaxError it throws
SyntaxError == [t |-> "SyntaxError", s |-> "", props |-> <<>>]
JsonParse(text) ==
    CASE text \in {JsonText("T1"), JsonText("T2"), JsonText("")} ->
            JsonObject("access_token" :>
                JsonString(CHOOSE v \in {"T1", "T2", ""} : JsonText(v) = text))
      [] text = NestedText ->
            JsonObject(("data" :> JsonObject(("token" :> JsonString("T1"))
                                             @@ ("n" :> JsonNumber("42"))
                                             @@ ("none" :> JsonNull)
                                             @@ ("empty" :> JsonString(""))))
                       @@ ("access_token" :> JsonString("T2")))
      [] text = QuotedText -> JsonString("abc")
      [] text = NullText -> JsonNull
      [] text = NumberBodyText -> JsonNumber("42")
      [] OTHER -> SyntaxError

\* part in current, and current[part]
HasProperty(current, part) == part \in DOMAIN current.props \/ part \in ObjectPrototype
GetProperty(current, part) ==
    IF part \in DOMAIN current.props THEN current.props[part] ELSE JsonFunction(part)

RECURSIVE WalkParts(_, _)
\* the for loop of extractJsonPath over pathParts
WalkParts(current, parts) ==
    IF parts = <<>> THEN current
    ELSE IF current.t \in {"null", "undefined"} THEN JsonUndefined
    ELSE IF current.t = "object" /\ HasProperty(current, Head(parts))
         THEN WalkParts(GetProperty(current, Head(parts)), Tail(parts))
         ELSE JsonUndefined

\* extractJsonPath(obj, path): JSON.parse a string first, then walk
extractJsonPath(obj, path) ==
    IF JsonFalsy(obj) \/ path = "" THEN obj
    ELSE IF obj.t = "string"
         THEN IF JsonParse(obj.s) = SyntaxError THEN JsonUndefined
              ELSE WalkParts(JsonParse(obj.s), JsonPathParts(path))
         ELSE WalkParts(obj, JsonPathParts(path))

(***************************************************************************)
(* Markup bodies.  The regular expressions of extractXPath see a text as   *)
(* its elements in the order of their opening tags: the tag, the           *)
(* attributes, the text up to the next tag (inner), whether that next tag  *)
(* is the element's own closing tag (closed).  Tags are written in lower   *)
(* case.                                                                   *)
(***************************************************************************)
Element(tag, attrs, inner, closed) ==
    [tag |-> tag, attrs |-> attrs, inner |-> inner, closed |-> closed]
Attribute(name, value) == [name |-> name, value |-> value]

LinkText == "<a href=\"x\">link</a>"
TwoLinksText == "<p><a href=\"x\"></a><a href=\"y\">second</a></p>"
TokenXmlText == "<root><token> T1 </token></root>"
BareLinkText == "<a href=\"x\"/>"
SText == "<token>s</token>"

XmlElements(text) ==
    CASE text = LinkText -> <<Element("a", <<Attribute("href", "x")>>, "link", TRUE)>>
      [] text = TwoLinksText ->
            <<Element("p", <<>>, "", FALSE),
              Element("a", <<Attribute("href", "x")>>, "", TRUE),
              Element("a", <<Attribute("href", "y")>>, "second", TRUE)>>
      [] text = TokenXmlText ->
            <<Element("root", <<>>, "", FALSE), Element("token", <<>>, " T1 ", TRUE)>>
      [] text = BareLinkText -> <<Element("a", <<Attribute("href", "x")>>, "", FALSE)>>
      [] text = SText -> <<Element("token", <<>>, "s", TRUE)>>
      [] OTHER -> <<>>

\* String.prototype.trim
Trim(text) == IF text = " T1 " THEN "T1" ELSE IF text = " " THEN "" ELSE text

\* xpath.includes('//'), xpath.includes('@'), startsWith('/') && !startsWith('//')
HasDoubleSlash(xpath) == xpath \in {"//token", "//a", "//a/@href", "//@href"}
HasAt(xpath) == xpath \in {"//a/@href", "//@href", "/a/@href"}
IsAbsolutePath(xpath) == xpath \in {"/root/token", "/token", "/a/@href"}

\* xpath.match(/\/\/([a-zA-Z0-9_-]+)/): the name matched, "" when none
ElementMatch(xpath) ==
    CASE xpath = "//token" -> "token"
      [] xpath \in {"//a", "//a/@href"} -> "a"
      [] OTHER -> ""

\* xpath.match(/\/\/([a-zA-Z0-9_-]+)\/@([a-zA-Z0-9_-]+)/): element and attribute
AttrMatch(xpath) == IF xpath = "//a/@href" THEN <<"a", "href">> ELSE <<>>

\* xpath.split('/').filter(part => part.length > 0)
XPathParts(xpath) ==
    CASE xpath = "/root/token" -> <<"root", "token">>
      [] xpath = "/token" -> <<"token">>
      [] xpath = "/a/@href" -> <<"a", "@href">>
      [] OTHER -> <<>>

\* the leftmost element of a set of positions
Leftmost(hits) == CHOOSE i \in hits : \A j \in hits : i <= j

\* <name[^>]*>([^<]*)</name>: the text of the leftmost element of that name
\* that holds text only; match && match[1] ? match[1].trim() : undefined
ElementText(elements, name) ==
    LET hits == {i \in DOMAIN elements : elements[i].tag = name /\ elements[i].closed}
    IN  IF hits = {} \/ elements[Leftmost(hits)].inner = "" THEN JsonUndefined
        ELSE JsonString(Trim(elements[Leftmost(hits)].inner))

\* <name[^>]*attr=["']([^"']*)["'][^>]*>: the value of the attribute in the
\* leftmost opening tag of that name that has it
AttributeValue(elements, name, attr) ==
    LET has(i) == \E k \in DOMAIN elements[i].attrs : elements[i].attrs[k].name = attr
        hits == {i \in DOMAIN elements : elements[i].tag = name /\ has(i)}
        attrs == elements[Leftmost(hits)].attrs
        value == attrs[CHOOSE k \in DOMAIN attrs : attrs[k].name = attr].value
    IN  IF hits = {} THEN JsonUndefined
        ELSE IF value = "" THEN JsonUndefined ELSE JsonString(value)

\* the loop over the parts of /a/b/c with <part[^>]*>([\s\S]*?)</part> in a
\* template literal, where \s and \S are the letters s and S: an element
\* matches only when its content is made of those letters, and such a content
\* holds no element for the next part
PathText(elements, parts) ==
    LET hits == {i \in DOMAIN elements :
                    /\ elements[i].tag = parts[1]
                    /\ elements[i].closed
                    /\ elements[i].inner \in {"", "s"}}
    IN  IF hits = {} \/ Len(parts) > 1 THEN JsonUndefined
        ELSE JsonString(Trim(elements[Leftmost(hits)].inner))

\* extractXPath(content, xpath): the element branch returns for every xpath
\* in which // is followed by a name, the attribute form included
extractXPath(content, xpath) ==
    IF JsonFalsy(content) \/ xpath = "" THEN content
    ELSE LET elements == XmlElements(content.s)
         IN  IF HasDoubleSlash(xpath) /\ ElementMatch(xpath) # ""
             THEN ElementText(elements, ElementMatch(xpath))
             ELSE IF HasAt(xpath) /\ AttrMatch(xpath) # <<>>
             THEN AttributeValue(elements, AttrMatch(xpath)[1], AttrMatch(xpath)[2])
             ELSE IF IsAbsolutePath(xpath)
             THEN PathText(elements, XPathParts(xpath))
             ELSE JsonUndefined

\* the switch of processResponseForTemplate on field.toLowerCase()
ExtractField(response, field) ==
    CASE field = "body" -> JsonString(response.raw)
      [] field = "status" -> JsonNumber(response.status)
      [] OTHER -> JsonUndefined      \* a header the response does not carry

\* the string processResponseForTemplate returns and caches
ExtractedString(response, template) ==
    LET extractedValue == ExtractField(response, template.field)
        pathed ==
            IF template.jsonPath # "" /\ ~JsonFalsy(extractedValue)
            THEN extractJsonPath(extractedValue, template.jsonPath)
            ELSE IF template.xPath # "" /\ ~JsonFalsy(extractedValue)
                 THEN extractXPath(extractedValue, template.xPath)
                 ELSE extractedValue
    IN  IF pathed.t = "undefined" THEN "" ELSE pathed.s

(***************************************************************************)
(* Collections.  A request is the sequence of its template-bearing string  *)
(* fields in the order ParseScriptTemplate processes them; a field is a    *)
(* sequence of spans, literal text or a {% response ... %} directive given *)
(* by its parsed arguments (parseTemplateArguments drops the quotes).      *)
(***************************************************************************)
Lit(s) == [kind |-> "lit", text |-> s, args |-> <<>>]
Dir(a) == [kind |-> "dir", text |-> "", args |-> a]
Field(n, spans) == [name |-> n, spans |-> spans]

\* a request whose Authorization header is "Bearer {% response ... %}"
Bearer(a) == <<Field("Authorization", <<Lit("Bearer "), Dir(a)>>)>>
\* a request whose url is "{% response ... %}"
UrlOf(a) == <<Field("url", <<Dir(a)>>)>>
NoTemplates == <<Field("url", <<Lit("http://h/")>>)>>

TokenServer == {TokenResponse("T1"), TokenResponse("T2"), TokenResponse("")}

\* requests referring to each other: a 2-cycle, a self-reference, a 3-cycle;
\* an unknown id followed by a directive without a request id
CyclicCollection ==
    [name |-> "cyclic",
     requests |->
        [r \in {"req_x", "req_y", "req_self", "req_a", "req_b", "req_c", "req_orphan"} |->
            CASE r = "req_x" -> UrlOf(<<"response", "body", "req_y">>)
              [] r = "req_y" -> UrlOf(<<"response", "body", "req_x">>)
              [] r = "req_self" -> UrlOf(<<"response", "status", "req_self">>)
              [] r = "req_a" -> UrlOf(<<"response", "body", "req_b">>)
              [] r = "req_b" -> UrlOf(<<"response", "body", "req_c">>)
              [] r = "req_c" -> UrlOf(<<"response", "body", "req_a">>)
              [] OTHER -> <<Field("url", <<Dir(<<"response", "body", "req_missing">>),
                                           Dir(<<"response", "body">>)>>)>>],
     roots |-> {"req_x", "req_self", "req_a", "req_orphan"},
     server |-> {TextResponse("ok")}]

\* the example of the specification: the path argument is bare base64
SpecExample ==
    [name |-> "example",
     requests |->
        [r \in {"req_auth", "req_profile"} |->
            IF r = "req_auth" THEN NoTemplates
            ELSE Bearer(<<"response", "body", "req_auth", B64Token, "when-expired", "3600">>)],
     roots |-> {"req_profile"},
     server |-> {TokenResponse("T1")}]

\* req_profile depends on req_auth under one expiry mode and maxAge
PolicyCollection(mode, age) ==
    [name |-> "policy",
     requests |->
        [r \in {"req_auth", "req_profile"} |->
            IF r = "req_auth" THEN NoTemplates
            ELSE Bearer(<<"response", "body", "req_auth", B64Wrapped>>
                        \o (IF mode = "" THEN <<>> ELSE <<mode>>)
                        \o (IF age = "" THEN <<>> ELSE <<age>>))],
     roots |-> {"req_profile"},
     server |-> TokenServer]

\* "bogus" is no expiry mode: the template has no expiryMode but may have a maxAge;
\* with "" the mode argument is not written at all
PolicyModes == ExpiryModes \cup {"bogus", ""}
PolicyAges == {"", "1"}

\* directives with the same requestId, field and path in different requests
SharedCollection ==
    [name |-> "shared",
     requests |->
        [r \in {"req_auth", "req_p", "req_q", "req_r", "req_s"} |->
            CASE r = "req_auth" -> NoTemplates
              [] r = "req_p" -> Bearer(<<"response", "body", "req_auth", B64Wrapped, "never">>)
              [] r = "req_q" -> UrlOf(<<"response", "body", "req_auth", "$.access_token", "never", "1">>)
              [] r = "req_r" -> Bearer(<<"response", "body", "req_auth", B64Wrapped, "when-expired", "1">>)
              [] OTHER -> Bearer(<<"response", "body", "req_auth", B64Wrapped, "when-expired">>)],
     roots |-> {"req_p", "req_q", "req_r", "req_s"},
     server |-> {TokenResponse("T1")}]

Collections ==
    {CyclicCollection, SpecExample, SharedCollection}
    \cup {PolicyCollection(m, a) : m \in PolicyModes, a \in PolicyAges}

VARIABLES
    collection,        \* the loaded configuration (client.config), the same for both clients
    now,               \* Date.now()
    stack,             \* per call chain: the client.request calls in progress, outermost first
    owner,             \* per call chain: the client it runs on
    calls,             \* top-level calls made so far
    result,            \* per call chain: how its last top-level call ended
    warnings,          \* per call chain: the errors console.warn reported in its last call
    cache,             \* per client: the InMemoryCacheDriver's Map, key -> entry
    executionStacks,   \* per client: the Set of request ids in flight
    jar                \* per client: the InMemoryCookieDriver's Map, domain:key -> cookie

VARIABLES
    file,              \* FileCacheDriver: the content of the cache file, key -> entry
    caches,            \* SQLiteCacheDriver: the rows of the caches table, key -> row
    ops,               \* per caller of a cache driver: the driver operation it has in progress
    driverCalls        \* driver operations started so far

VARIABLES
    environment,       \* InsomniaConfigEnvironment: data and overrides
    tree,              \* a request of the collection and its parent folders, root first
    resolution,        \* what the last call of InsomniaTemplateResolver.resolve gave
    node               \* what the last call of InsomniaClient.getRequestNode gave

VARIABLES
    table,             \* SQLiteCookieDriver: the rows of the cookies table
    cookieCall,        \* what the last call of a cookie driver gave
    extraction,        \* an extraction function's arguments, then what it gave for them
    prompt             \* processPromptTemplate: the call in progress, then what it gave

\* the state of the units exercised on their own, apart from request chaining
others == <<file, caches, ops, driverCalls, environment, tree, resolution, node,
           table, cookieCall, extraction, prompt>>

vars == <<collection, now, stack, owner, calls, result, warnings, cache, executionStacks,
          jar, file, caches, ops, driverCalls, environment, tree, resolution, node,
          table, cookieCall, extraction, prompt>>

RECURSIVE FieldDirs(_, _, _)
FieldDirs(spans, fi, si) ==
    IF si > Len(spans) THEN <<>>
    ELSE (IF spans[si].kind = "dir" THEN << <<fi, si>> >> ELSE <<>>)
         \o FieldDirs(spans, fi, si + 1)

RECURSIVE DirsFrom(_, _)
DirsFrom(fields, fi) ==
    IF fi > Len(fields) THEN <<>>
    ELSE FieldDirs(fields[fi].spans, fi, 1) \o DirsFrom(fields, fi + 1)

\* the {% ... %} matches of a request, in the order ParseScriptTemplate meets them
DirPositions(req) == DirsFrom(collection.requests[req], 1)

\* client.request(path): getRequestNode gives a fresh copy of the request's fields
NewFrame(req) ==
    [req |-> req, k |-> 1, pc |-> "scan", out |-> collection.requests[req]]

Top(ch) == stack[ch][Len(stack[ch])]
Active(ch) == stack[ch] # <<>>

\* the directive the top frame of a chain is resolving
CurrentSpan(f) ==
    LET pos == DirPositions(f.req)[f.k] IN f.out[pos[1]].spans[pos[2]]
CurrentTemplate(f) == ParseResponseTemplate(CurrentSpan(f).args)
AtDirective(f) == f.k <= Len(DirPositions(f.req))

\* the first span of a string that reads as the directive written with args
FirstOccurrence(spans, args) ==
    CHOOSE j \in DOMAIN spans :
        /\ spans[j].kind = "dir" /\ spans[j].args = args
        /\ \A i \in 1..(j - 1) : ~(spans[i].kind = "dir" /\ spans[i].args = args)

\* result.replace(fullMatch, resolvedValue) puts the value in place of the first
\* occurrence of the directive's text in the string; then on to the next match
Replaced(f, value) ==
    LET pos == DirPositions(f.req)[f.k]
        spans == f.out[pos[1]].spans
        at == FirstOccurrence(spans, spans[pos[2]].args)
    IN  [f EXCEPT !.out[pos[1]].spans[at] = [kind |-> "val", text |-> value, args |-> <<>>],
                  !.k = @ + 1, !.pc = "scan"]

\* the catch of processTemplateString: console.warn, the span stays as written
Warned(f, err) ==
    LET pos == DirPositions(f.req)[f.k]
    IN  [f EXCEPT !.out[pos[1]].spans[pos[2]].text = err, !.k = @ + 1, !.pc = "scan"]

SetTop(ch, f) == [stack EXCEPT ![ch][Len(stack[ch])] = f]

\* one module-level Set for every client
getExecutionStackShared(c) == "A"

\* getExecutionStack(client): which Set a client's resolutions use
getExecutionStack(c) == c

\* findRequestPathById(requestId) finds a path
RequestFound(id) == id \in DOMAIN collection.requests

\* no check for an id in flight
InFlightUnchecked(c, id) == FALSE

\* executionStack.has(requestId)
InFlight(c, id) == id \in executionStacks[getExecutionStack(c)]

\* a catch that rethrows without deleting the id
DeleteOnThrowForgotten(set, id) == set

\* executionStack.delete(requestId) in the catch of resolveResponseTemplate
DeleteOnThrow(set, id) == set \ {id}

(***************************************************************************)
(* InMemoryCacheDriver                                                     *)
(***************************************************************************)
EmptyMap == [k \in {} |-> TRUE]

\* entry.expiresAt && entry.expiresAt <= now
IsExpired(entry, t) == entry.expiresAt # 0 /\ entry.expiresAt <= t

\* get(key): the entry, when present and not expired
CacheLive(c, key) == key \in DOMAIN cache[c] /\ ~IsExpired(cache[c][key], now)

\* the Map after get(key): an expired entry is deleted
CacheAfterGet(c, key) ==
    IF key \in DOMAIN cache[c] /\ IsExpired(cache[c][key], now)
    THEN [cache EXCEPT ![c] = [k \in DOMAIN cache[c] \ {key} |-> cache[c][k]]]
    ELSE cache

\* set(key, value, ttl ? {ttl} : undefined)
CacheAfterSet(c, key, value, ttl) ==
    [cache EXCEPT ![c] =
        (key :> [value |-> value, createdAt |-> now,
                 expiresAt |-> IF ttl # 0 THEN now + ttl ELSE 0])
        @@ cache[c]]

(***************************************************************************)
(* Cookies.  A time is Date.now() of the instant an ISO string names; an   *)
(* optional field is <<>> when absent and <<v>> when it holds v.  A Cookie *)
(* header is the set of its name=value pairs.                              *)
(***************************************************************************)
Absent == <<>>
Given(v) == <<v>>

\* new URL(url): protocol, hostname and pathname of the urls requests go to
ParseUrl(url) ==
    CASE url = "http://h.com/" -> [protocol |-> "http:", hostname |-> "h.com", pathname |-> "/"]
      [] url = "https://h.com/" -> [protocol |-> "https:", hostname |-> "h.com", pathname |-> "/"]
      [] url = "https://h.com/api/x" ->
            [protocol |-> "https:", hostname |-> "h.com", pathname |-> "/api/x"]
      [] url = "https://evilh.com/" ->
            [protocol |-> "https:", hostname |-> "evilh.com", pathname |-> "/"]
      [] OTHER -> [protocol |-> "http:", hostname |-> "h", pathname |-> "/"]   \* http://h/

\* String.prototype.endsWith and startsWith on host names and paths
EndsWith(s, suffix) ==
    \/ s = suffix
    \/ <<s, suffix>> \in {<<"evilh.com", "h.com">>, <<"evilh.com", "com">>, <<"h.com", "com">>}
StartsWith(s, prefix) ==
    \/ s = prefix
    \/ <<s, prefix>> \in {<<"/api/x", "/">>, <<"/api/x", "/api">>, <<"/api", "/">>}

\* SetCookieOptions: what setCookie is called with besides key and value
CookieOptions(domain, path, secure, hostOnly, expires, maxAge) ==
    [domain |-> domain, path |-> path, secure |-> secure, hostOnly |-> hostOnly,
     expires |-> expires, maxAge |-> maxAge]

\* isExpired(cookie), the same in both drivers
isExpired(cookie, t) ==
    \/ cookie.expires # Absent /\ t > cookie.expires[1]
    \/ cookie.maxAge # Absent /\ t > cookie.creation + cookie.maxAge[1] * MsPerSecond

\* InMemoryCookieDriver: `${domain}:${key}`
getCookieKey(key, domain) == <<domain, key>>

\* InMemoryCookieDriver.cleanupExpiredCookies
cleanupExpiredCookies(cookies, t) ==
    [k \in {k \in DOMAIN cookies : ~isExpired(cookies[k], t)} |-> cookies[k]]

\* InMemoryCookieDriver.setCookie(key, value, options)
setCookie(cookies, key, value, options, t) ==
    LET domain == IF options.domain # "" THEN options.domain ELSE "localhost"
        cookieKey == getCookieKey(key, domain)
    IN  (cookieKey :>
            [key |-> key, value |-> value, domain |-> domain,
             path |-> IF options.path # "" THEN options.path ELSE "/",
             secure |-> options.secure, hostOnly |-> options.hostOnly,
             creation |-> IF cookieKey \in DOMAIN cookies
                          THEN cookies[cookieKey].creation ELSE t,
             lastAccessed |-> t,
             expires |-> options.expires, maxAge |-> options.maxAge])
        @@ cookies

\* a header that sends secure cookies whatever the protocol
SecureIgnored(cookie, isSecure) == TRUE

\* getCookieHeader: if (cookie.secure && !isSecure) continue
SecureAllowed(cookie, isSecure) == ~(cookie.secure /\ ~isSecure)

\* getCookieHeader: the domain, path and secure tests of the loop
Applicable(cookie, url) ==
    /\ IF cookie.hostOnly THEN cookie.domain = url.hostname
       ELSE EndsWith(url.hostname, cookie.domain) \/ url.hostname = cookie.domain
    /\ StartsWith(url.pathname, cookie.path)
    /\ SecureAllowed(cookie, url.protocol = "https:")

\* InMemoryCookieDriver.getCookieHeader(url): the Map it leaves (expired
\* cookies deleted, the cookies sent marked as accessed) and the cookies sent
getCookieHeader(cookies, url, t) ==
    LET kept == cleanupExpiredCookies(cookies, t)
        sent == {k \in DOMAIN kept : Applicable(kept[k], ParseUrl(url))}
    IN  [cookies |-> [k \in DOMAIN kept |->
                        IF k \in sent THEN [kept[k] EXCEPT !.lastAccessed = t] ELSE kept[k]],
         sent |-> {kept[k] : k \in sent}]

\* InMemoryCookieDriver.getCookie(key, domain): the Map it leaves and the
\* cookie returned (none when the set is empty)
getCookie(cookies, key, domain, t) ==
    LET kept == cleanupExpiredCookies(cookies, t)
        cookieKey == getCookieKey(key, domain)
    IN  IF cookieKey \notin DOMAIN kept THEN [cookies |-> kept, returned |-> {}]
        ELSE IF isExpired(kept[cookieKey], t)
        THEN [cookies |-> [k \in DOMAIN kept \ {cookieKey} |-> kept[k]], returned |-> {}]
        ELSE [cookies |-> kept, returned |-> {kept[cookieKey]}]

\* InMemoryCookieDriver.getCookies() without a filter
getCookies(cookies, t) ==
    LET kept == cleanupExpiredCookies(cookies, t)
    IN  [cookies |-> kept, returned |-> {kept[k] : k \in DOMAIN kept}]

\* InMemoryCookieDriver.getCookieCount(): this.cookies.size after the cleanup
getCookieCount(cookies, t) ==
    LET kept == cleanupExpiredCookies(cookies, t)
    IN  [cookies |-> kept, count |-> Cardinality(DOMAIN kept)]

\* a Set-Cookie header: name=value and its attributes as written, in order
SetCookieHeader(name, value, attributes) ==
    [name |-> name, value |-> value, attributes |-> attributes]

\* attrName?.toLowerCase() for the attribute names the headers use
AttrLower(attrName) ==
    CASE attrName = "Max-Age" -> "max-age"
      [] attrName = "Secure" -> "secure"
      [] attrName = "Path" -> "path"
      [] attrName = "Domain" -> "domain"
      [] OTHER -> attrName

RECURSIVE ParseAttributes(_, _, _)
\* parseAndSetCookie: the loop over the attributes, options being built
ParseAttributes(attributes, i, options) ==
    IF i > Len(attributes) THEN options
    ELSE LET attrName == AttrLower(attributes[i][1])
             attrValue == attributes[i][2]
         IN  ParseAttributes(attributes, i + 1,
                CASE attrName = "domain" ->
                        [options EXCEPT !.domain =
                            IF attrValue = ".h.com" THEN "h.com" ELSE attrValue]
                  [] attrName = "path" ->
                        [options EXCEPT !.path = IF attrValue # "" THEN attrValue ELSE "/"]
                  [] attrName = "secure" -> [options EXCEPT !.secure = TRUE]
                  [] attrName = "max-age" ->
                        [options EXCEPT !.maxAge =
                            IF attrValue # "" THEN Given(ParseInt(attrValue)) ELSE Absent]
                  [] OTHER -> options)

\* processSetCookieHeaders for one header: the defaults come from the url
\* (the path up to its last segment), the rest from the attributes (the
\* headers of the collections carry no Expires, HttpOnly or SameSite)
processSetCookieHeaders(cookies, header, url, t) ==
    LET defaults == CookieOptions(ParseUrl(url).hostname,
                                  IF ParseUrl(url).pathname = "/api/x" THEN "/api" ELSE "/",
                                  FALSE, FALSE, Absent, Absent)
    IN  setCookie(cookies, header.name, header.value,
                  ParseAttributes(header.attributes, 1, defaults), t)

(***************************************************************************)
(* SQLiteCookieDriver: the cookies table as the set of its rows, one for   *)
(* every (key, domain, path).  `asked` is no column: it keeps the expiry   *)
(* the setCookie call that wrote the row was given.                        *)
(***************************************************************************)
\* cleanupExpiredCookies: the two DELETE statements
SqlCleanup(rows, t) ==
    {r \in rows :
        /\ ~(r.expires # Absent /\ r.expires[1] <= t)
        /\ ~(/\ r.maxAge # Absent
             /\ (r.creation \div MsPerSecond) * MsPerSecond + r.maxAge[1] * MsPerSecond <= t)}

\* setCookie: INSERT OR REPLACE, with options?.expires || null and
\* options?.maxAge || null
SqlSetCookie(rows, key, value, options, t) ==
    LET domain == IF options.domain # "" THEN options.domain ELSE "localhost"
        path == IF options.path # "" THEN options.path ELSE "/"
        existing == {r \in rows : r.key = key /\ r.domain = domain /\ r.path = path}
    IN  (rows \ existing) \cup
        {[key |-> key, value |-> value, domain |-> domain, path |-> path,
          secure |-> options.secure, hostOnly |-> options.hostOnly,
          creation |-> IF existing # {} THEN (CHOOSE r \in existing : TRUE).creation ELSE t,
          lastAccessed |-> t,
          expires |-> options.expires,
          maxAge |-> IF options.maxAge = Absent \/ options.maxAge[1] = 0
                     THEN Absent ELSE options.maxAge,
          asked |-> [expires |-> options.expires, maxAge |-> options.maxAge]]}

\* getCookieHeader: the SELECT and the UPDATE of last_accessed
SqlGetCookieHeader(rows, url, t) ==
    LET kept == SqlCleanup(rows, t)
        u == ParseUrl(url)
        sent == {r \in kept :
                    /\ \/ r.hostOnly /\ r.domain = u.hostname
                       \/ ~r.hostOnly /\ (u.hostname = r.domain \/ EndsWith(u.hostname, r.domain))
                    /\ StartsWith(u.pathname, r.path)
                    /\ (~r.secure \/ u.protocol = "https:")}
    IN  [rows |-> (kept \ sent) \cup {[r EXCEPT !.lastAccessed = t] : r \in sent},
         sent |-> sent]

\* getCookie(key, domain): cleanup, the row of the greatest path, isExpired again
SqlGetCookie(rows, key, domain, t) ==
    LET kept == SqlCleanup(rows, t)
        found == {r \in kept : r.key = key /\ r.domain = domain}
        row == CHOOSE r \in found : \A o \in found : StartsWith(r.path, o.path)
    IN  IF found = {} THEN [rows |-> kept, returned |-> {}]
        ELSE IF isExpired(row, t) THEN [rows |-> kept \ {row}, returned |-> {}]
        ELSE [rows |-> kept, returned |-> {row}]

\* SQLiteCookieDriver.getCookies() without a filter: cleanup, SELECT *
SqlGetCookies(rows, t) ==
    [rows |-> SqlCleanup(rows, t), returned |-> SqlCleanup(rows, t)]

\* SQLiteCookieDriver.getCookieCount(): cleanup, SELECT COUNT(*)
SqlGetCookieCount(rows, t) ==
    [rows |-> SqlCleanup(rows, t), count |-> Cardinality(SqlCleanup(rows, t))]

\* the callers that use a cache driver at the same time
Slots == {1, 2}

\* no driver operation in progress
IdleOp ==
    [driver |-> "", op |-> "", key |-> "", ttl |-> 0, pc |-> "idle",
     entries |-> EmptyMap, at |-> 0, keys |-> {}, count |-> 0]

\* the cache drivers are at rest
DriversIdle ==
    /\ file = EmptyMap
    /\ caches = EmptyMap
    /\ ops = [s \in Slots |-> IdleOp]
    /\ driverCalls = 0

\* an environment without variables, a request without folders, no call made
NoEnvironment == [data |-> EmptyMap, overrides |-> EmptyMap]
NoAuthentication ==
    [present |-> FALSE, type |-> "", token |-> <<>>, username |-> <<>>, password |-> <<>>,
     disabled |-> FALSE]
NoTree ==
    [folders |-> <<>>,
     request |-> [url |-> <<>>, headers |-> <<>>, body |-> <<>>,
                  authentication |-> NoAuthentication]]
NotCalled == [kind |-> "none"]

\* request resolution is at rest
ResolutionIdle ==
    /\ environment = NoEnvironment
    /\ tree = NoTree
    /\ resolution = NotCalled
    /\ node = NotCalled

\* no cookie driver, extraction function or prompt has been called
UnitsIdle ==
    /\ table = {}
    /\ cookieCall = NotCalled
    /\ extraction = NotCalled
    /\ prompt = NotCalled

\* the units exercised on their own are at rest
OthersIdle == DriversIdle /\ ResolutionIdle /\ UnitsIdle

\* no client.request has been called
ChainsIdle ==
    /\ now = 0
    /\ stack = [ch \in Chains |-> <<>>]
    /\ owner = [ch \in Chains |-> "A"]
    /\ calls = 0
    /\ result = [ch \in Chains |-> [kind |-> "none", req |-> "", sent |-> <<>>]]
    /\ warnings = [ch \in Chains |-> {}]
    /\ cache = [c \in Clients |-> EmptyMap]
    /\ executionStacks = [c \in Clients |-> {}]
    /\ jar = [c \in Clients |-> EmptyMap]

Init ==
    /\ OthersIdle
    /\ collection \in Collections
    /\ ChainsIdle

(***************************************************************************)
(* resolveResponseTemplate from the lookup of the target on: not found and *)
(* in flight throw (processTemplateString catches, warns and goes on);     *)
(* otherwise the id is added and client.request(requestPath) is awaited.   *)
(***************************************************************************)
\* console.warn(`Failed to resolve template: ...`, error); the error names id
Warn(ch, err, id) ==
    warnings' = [warnings EXCEPT ![ch] = @ \cup {[kind |-> err, id |-> id]}]

Proceed(ch, template) ==
    LET c == owner[ch]
        f == Top(ch)
        id == template.requestId
    IN  IF ~RequestFound(id)
        THEN /\ stack' = SetTop(ch, Warned(f, "NotFound"))
             /\ Warn(ch, "NotFound", id)
             /\ UNCHANGED executionStacks
        ELSE IF InFlight(c, id)
        THEN /\ stack' = SetTop(ch, Warned(f, "Circular"))
             /\ Warn(ch, "Circular", id)
             /\ UNCHANGED executionStacks
        ELSE /\ Len(stack[ch]) < MaxDepth
             /\ UNCHANGED warnings
             /\ executionStacks' =
                    [executionStacks EXCEPT ![getExecutionStack(c)] = @ \cup {id}]
             /\ stack' = [stack EXCEPT ![ch] =
                    Append(SetTop(ch, [f EXCEPT !.pc = "await"])[ch], NewFrame(id))]

\* the clients a call chain may run on: chain 1 stands for client A's callers,
\* chain 2 for a second caller of A or a caller of B
ClientsOf(ch) == IF ch = 1 THEN {"A"} ELSE Clients

\* a caller starts client.request(path) on client c
StartRequest(ch, c, r) ==
    /\ ~Active(ch)
    /\ calls < MaxCalls
    /\ r \in collection.roots
    /\ c \in ClientsOf(ch)
    /\ stack' = [stack EXCEPT ![ch] = <<NewFrame(r)>>]
    /\ owner' = [owner EXCEPT ![ch] = c]
    /\ calls' = calls + 1
    /\ result' = [result EXCEPT ![ch] = [kind |-> "pending", req |-> r, sent |-> <<>>]]
    /\ warnings' = [warnings EXCEPT ![ch] = {}]
    /\ UNCHANGED <<collection, now, cache, executionStacks>>
    /\ UNCHANGED <<jar, others>>

\* processTemplateString meets the next {% ... %}: parse it and, for a
\* `response` directive, enter resolveResponseTemplate up to its first await
BeginDirective(ch) ==
    /\ Active(ch)
    /\ Top(ch).pc = "scan"
    /\ AtDirective(Top(ch))
    /\ LET f == Top(ch)
           args == CurrentSpan(f).args
       IN  IF ~TemplateArgsValid(args)
           THEN /\ stack' = SetTop(ch, Warned(f, "InvalidTemplate"))
                /\ Warn(ch, "InvalidTemplate", "")
                /\ UNCHANGED executionStacks
           ELSE IF shouldUseCache(CurrentTemplate(f).expiryMode, CurrentTemplate(f).maxAge)
           THEN /\ stack' = SetTop(ch, [f EXCEPT !.pc = "has"])
                /\ UNCHANGED <<executionStacks, warnings>>
           ELSE Proceed(ch, CurrentTemplate(f))
    /\ UNCHANGED <<collection, now, owner, calls, result, cache>>
    /\ UNCHANGED <<jar, others>>

\* await client.hasCachedValue(cacheKey)
CacheHas(ch) ==
    /\ Active(ch)
    /\ Top(ch).pc = "has"
    /\ LET f == Top(ch)
           key == CacheKey(CurrentTemplate(f))
       IN  /\ cache' = CacheAfterGet(owner[ch], key)
           /\ IF CacheLive(owner[ch], key)
              THEN /\ stack' = SetTop(ch, [f EXCEPT !.pc = "get"])
                   /\ UNCHANGED <<executionStacks, warnings>>
              ELSE Proceed(ch, CurrentTemplate(f))
    /\ UNCHANGED <<collection, now, owner, calls, result>>
    /\ UNCHANGED <<jar, others>>

\* await client.getCachedValue(cacheKey); a truthy value is the result
CacheGet(ch) ==
    /\ Active(ch)
    /\ Top(ch).pc = "get"
    /\ LET f == Top(ch)
           key == CacheKey(CurrentTemplate(f))
       IN  /\ cache' = CacheAfterGet(owner[ch], key)
           /\ IF CacheLive(owner[ch], key) /\ ~Falsy(cache[owner[ch]][key].value)
              THEN /\ stack' = SetTop(ch, Replaced(f, cache[owner[ch]][key].value))
                   /\ UNCHANGED <<executionStacks, warnings>>
              ELSE Proceed(ch, CurrentTemplate(f))
    /\ UNCHANGED <<collection, now, owner, calls, result>>
    /\ UNCHANGED <<jar, others>>

\* the url of every request of the collections, once resolved and sanitized
RequestUrl == "http://h/"

\* response.headers.getSetCookie(): the Set-Cookie headers of a response
SetCookieHeaders(response) ==
    IF "setCookie" \in DOMAIN response THEN response.setCookie ELSE <<>>

RECURSIVE StoreCookies(_, _, _)
\* processSetCookieHeaders(setCookieHeaders, url): the loop from header i on
StoreCookies(cookies, headers, i) ==
    IF i > Len(headers) THEN cookies
    ELSE StoreCookies(processSetCookieHeaders(cookies, headers[i], RequestUrl, now),
                      headers, i + 1)

\* a catch that empties the cookie jar before it rethrows
JarRolledBack(cookies) == EmptyMap

\* the catch of client.request: the error is rethrown, the cookie jar stays
JarOnFailure(cookies) == cookies

\* ParseScriptTemplate has returned: the Cookie header is asked of the cookie
\* driver and the request goes out with the resolved fields
SendRequest(ch) ==
    /\ Active(ch)
    /\ Top(ch).pc = "scan"
    /\ ~AtDirective(Top(ch))
    /\ stack' = SetTop(ch, [Top(ch) EXCEPT !.pc = "fetch"])
    /\ jar' = [jar EXCEPT ![owner[ch]] = getCookieHeader(@, RequestUrl, now).cookies]
    /\ UNCHANGED <<collection, now, owner, calls, result, warnings, cache, executionStacks>>
    /\ UNCHANGED others

\* the caller of a finished client.request, when it is resolveResponseTemplate
Caller(ch) == stack[ch][Len(stack[ch]) - 1]
Popped(ch, f) == [stack EXCEPT ![ch] = Append(SubSeq(stack[ch], 1, Len(stack[ch]) - 2), f)]

\* fetch resolves: the cookies of the response are stored and client.request
\* returns the response; in a chain the id is deleted, the value extracted,
\* cached by policy and put in place of the span
FetchOk(ch, response) ==
    /\ Active(ch)
    /\ Top(ch).pc = "fetch"
    /\ response \in collection.server
    /\ IF Len(stack[ch]) = 1
       THEN /\ stack' = [stack EXCEPT ![ch] = <<>>]
            /\ result' = [result EXCEPT ![ch].kind = "ok", ![ch].sent = Top(ch).out]
            /\ UNCHANGED <<cache, executionStacks>>
       ELSE LET c == owner[ch]
                template == CurrentTemplate(Caller(ch))
                stringValue == ExtractedString(response, template)
            IN  /\ executionStacks' =
                       [executionStacks EXCEPT ![getExecutionStack(c)] = @ \ {Top(ch).req}]
                /\ cache' =
                       IF shouldCacheResult(template.expiryMode, template.maxAge)
                       THEN CacheAfterSet(c, CacheKey(template), stringValue,
                                          CacheTtl(template.maxAge))
                       ELSE cache
                /\ stack' = Popped(ch, Replaced(Caller(ch), stringValue))
                /\ UNCHANGED result
    /\ UNCHANGED <<collection, now, owner, calls, warnings>>
    /\ jar' = [jar EXCEPT ![owner[ch]] = StoreCookies(@, SetCookieHeaders(response), 1)]
    /\ UNCHANGED others

\* fetch rejects (or the timeout aborts it): client.request throws; in a chain
\* the catch deletes the id and rethrows to processTemplateString
FetchFail(ch) ==
    /\ Active(ch)
    /\ Top(ch).pc = "fetch"
    /\ IF Len(stack[ch]) = 1
       THEN /\ stack' = [stack EXCEPT ![ch] = <<>>]
            /\ result' = [result EXCEPT ![ch].kind = "HttpError"]
            /\ UNCHANGED <<executionStacks, warnings>>
       ELSE /\ executionStacks' =
                   [executionStacks EXCEPT ![getExecutionStack(owner[ch])] =
                        DeleteOnThrow(@, Top(ch).req)]
            /\ stack' = Popped(ch, Warned(Caller(ch), "HttpError"))
            /\ Warn(ch, "HttpError", "")
            /\ UNCHANGED result
    /\ UNCHANGED <<collection, now, owner, calls, cache>>
    /\ jar' = [jar EXCEPT ![owner[ch]] = JarOnFailure(@)]
    /\ UNCHANGED others

\* a second passes
Tick ==
    /\ now < MaxTicks * MsPerSecond
    /\ now' = now + MsPerSecond
    /\ UNCHANGED <<collection, stack, owner, calls, result, warnings, cache, executionStacks>>
    /\ UNCHANGED <<jar, others>>

Next ==
    \/ \E ch \in Chains, c \in Clients, r \in DOMAIN collection.requests : StartRequest(ch, c, r)
    \/ \E ch \in Chains : BeginDirective(ch)
    \/ \E ch \in Chains : CacheHas(ch)
    \/ \E ch \in Chains : CacheGet(ch)
    \/ \E ch \in Chains : SendRequest(ch)
    \/ \E ch \in Chains, response \in collection.server : FetchOk(ch, response)
    \/ \E ch \in Chains : FetchFail(ch)
    \/ Tick

Spec == Init /\ [][Next]_vars

\* one step of a call chain: a continuation the event loop runs, or the
\* completion of its HTTP call
ChainStep(ch) ==
    \/ BeginDirective(ch)
    \/ CacheHas(ch)
    \/ CacheGet(ch)
    \/ SendRequest(ch)
    \/ \E response \in collection.server : FetchOk(ch, response)
    \/ FetchFail(ch)

(***************************************************************************)
(* Properties                                                              *)
(***************************************************************************)
\* the ids whose execution as a dependency is in progress on client c
InProgressIds(c) ==
    {stack[ch][i].req : <<ch, i>> \in
        {p \in Chains \X (2..(MaxDepth + 1)) :
            Active(p[1]) /\ owner[p[1]] = c /\ p[2] <= Len(stack[p[1]])}}

\* the top-level call of a chain has ended and no HTTP call failed in it
EndedWithoutTransportError(ch) ==
    /\ result[ch].kind \notin {"none", "pending", "HttpError"}
    /\ \A w \in warnings[ch] : w.kind # "HttpError"

\* this step, the directive the chain is resolving fails with err
Raised(ch, err) ==
    /\ Active(ch)
    /\ Top(ch).pc \in {"scan", "has", "get"}
    /\ AtDirective(Top(ch))
    /\ Len(stack'[ch]) = Len(stack[ch])
    /\ stack'[ch][Len(stack[ch])].k = Top(ch).k + 1
    /\ LET pos == DirPositions(Top(ch).req)[Top(ch).k]
       IN  /\ stack'[ch][Len(stack[ch])].out[pos[1]].spans[pos[2]].kind = "dir"
           /\ stack'[ch][Len(stack[ch])].out[pos[1]].spans[pos[2]].text = err

\* this step, the chain starts executing request id as a dependency
StartsDependency(ch, id) ==
    /\ Active(ch)
    /\ Len(stack'[ch]) = Len(stack[ch]) + 1
    /\ stack'[ch][Len(stack'[ch])].req = id

\* C1: when req_x and req_y refer to each other through `response` directives, a
\* top-level execution of req_x ends by raising the circular-dependency error to
\* the caller (it does not return a response).
C1_CycleRaisedToCaller ==
    collection = CyclicCollection =>
        \A ch \in Chains :
            (/\ result[ch].req = "req_x"
             /\ EndedWithoutTransportError(ch)
             /\ \A other \in Chains \ {ch} : result[other].kind = "none")
                => result[ch].kind = "Circular"

\* the directives of request id, as parsed arguments
DirectiveArgs(id) ==
    LET fields == collection.requests[id]
        pos == DirPositions(id)
    IN  [i \in 1..Len(pos) |-> fields[pos[i][1]].spans[pos[i][2]].args]

RECURSIVE StepsToRun(_, _)
RECURSIVE StepsOfDirectives(_, _)
\* a bound on the steps an execution of request id takes when the ids in
\* ancestors are in flight above it: per directive at most three local steps and
\* the execution of a target that is not among the ancestors, then send and fetch
StepsToRun(id, ancestors) == StepsOfDirectives(DirectiveArgs(id), ancestors) + 2

StepsOfDirectives(dirs, ancestors) ==
    IF dirs = <<>> THEN 0
    ELSE LET target == Arg(Head(dirs), 3)
         IN  3 + (IF RequestFound(target) /\ target \notin ancestors
                  THEN StepsToRun(target, ancestors \cup {target}) ELSE 0)
               + StepsOfDirectives(Tail(dirs), ancestors)

\* the same bound for frame i of a stack, from where the frame stands
StepsLeftInFrame(st, i) ==
    LET f == st[i]
        ancestors == {st[j].req : j \in 2..i}
        dirs == DirectiveArgs(f.req)
        later == SubSeq(dirs, f.k + 1, Len(dirs))
        here == IF f.k > Len(dirs) \/ f.pc \in {"await", "fetch"} THEN <<>> ELSE <<dirs[f.k]>>
        spent == CASE f.pc = "has" -> 1 [] f.pc = "get" -> 2 [] OTHER -> 0
    IN  StepsOfDirectives(here, ancestors) - spent
        + StepsOfDirectives(later, ancestors)
        + (IF f.pc = "fetch" THEN 1 ELSE 2)

RECURSIVE StepsLeftFrom(_, _)
StepsLeftFrom(st, i) ==
    IF i > Len(st) THEN 0 ELSE StepsLeftInFrame(st, i) + StepsLeftFrom(st, i + 1)

StepsLeft(st) == StepsLeftFrom(st, 1)

\* the innermost request of the chain is at a point from which ChainStep(ch) is
\* enabled: it is not the one awaiting, and the model's depth cap is not in its way
CanStep(ch) ==
    /\ Top(ch).pc \in {"scan", "has", "get", "fetch"}
    /\ Len(stack[ch]) < MaxDepth

\* C2: every top-level execution terminates, whatever the pattern of `response`
\* directives (cycles, self-reference, unknown ids), given that every HTTP call
\* returns or fails: a call in progress can always take a step (it never hangs),
\* and every step it takes lowers a bound on the steps it has left, so the number
\* of nested dependency executions is bounded.
C2_ExecutionTerminates ==
    /\ [](\A ch \in Chains : Active(ch) => CanStep(ch))
    /\ [][\A ch \in Chains :
            (Active(ch) /\ stack'[ch] # stack[ch])
                => (StepsLeft(stack'[ch]) < StepsLeft(stack[ch])
                    /\ StepsLeft(stack'[ch]) >= 0)]_vars

\* a cycle was met and cut, and the call came back
C2_Witness ==
    \E ch \in Chains :
        /\ result[ch].kind = "ok"
        /\ \E w \in warnings[ch] : w.kind = "Circular"

\* C3: a client's in-flight set holds exactly the ids whose execution as a
\* dependency is in progress on it: an id leaves the set when its execution
\* returns and when it throws, and the set is empty when nothing is in progress.
C3_InFlightIsInProgress ==
    \A c \in Clients : executionStacks[c] = InProgressIds(c)

\* a dependency's execution threw, the caller went on, nothing is left in flight
C3_Witness ==
    \E ch \in Chains :
        /\ Active(ch) /\ Len(stack[ch]) = 1
        /\ \E w \in warnings[ch] : w.kind = "HttpError"
        /\ executionStacks[owner[ch]] = {}

Val(v) == [kind |-> "val", text |-> v, args |-> <<>>]

\* the top-level request of the chain is handed to fetch and nothing was warned
\* of while its fields were resolved
SentCleanly(ch, req) ==
    /\ Active(ch) /\ Len(stack[ch]) = 1
    /\ Top(ch).req = req /\ Top(ch).pc = "fetch"
    /\ warnings[ch] = {}

\* C5: in the example (req_auth answers {"access_token":"T1"}; req_profile's
\* Authorization header is Bearer {% response 'body' 'req_auth'
\* 'JC5hY2Nlc3NfdG9rZW4=' 'when-expired' 3600 %}), when req_profile's own HTTP
\* call is sent, req_auth's call has completed and the header is Bearer T1.
C5_ExampleSendsBearerT1 ==
    collection = SpecExample =>
        \A ch \in Chains :
            SentCleanly(ch, "req_profile")
                => Top(ch).out = <<Field("Authorization", <<Lit("Bearer "), Val("T1")>>)>>

\* the template of the directive frame f stands at; f stands at a valid one
AtTemplate(f) == AtDirective(f) /\ TemplateArgsValid(CurrentSpan(f).args)

\* the top-level call of the chain ended well: req was sent with value v in place
\* of its directive, nothing was warned of
EndedWith(ch, req, v) ==
    /\ result[ch].kind = "ok" /\ result[ch].req = req
    /\ warnings[ch] = {}
    /\ \E i \in 1..Len(result[ch].sent) :
          \E j \in 1..Len(result[ch].sent[i].spans) : result[ch].sent[i].spans[j] = Val(v)

NeverCollections == {PolicyCollection("never", a) : a \in PolicyAges}

\* C6: with expiryMode never, once an execution of req_profile has resolved the
\* directive to a value v on a client, no later resolution of the directive on
\* that client executes req_auth again, whatever time has passed and with or
\* without a maxAge.
C6_NeverKeepsFirstValue ==
    [][\A ch \in Chains, other \in Chains :
          (/\ collection \in NeverCollections
           /\ other # ch
           /\ owner[other] = owner[ch]
           /\ \E v \in {"T1", "T2"} : EndedWith(other, "req_profile", v))
              => ~StartsDependency(ch, "req_auth")]_vars

\* the chain stands at a directive whose template has one of modes as its expiry
\* mode ("" is no expiry mode) and a maxAge (aged) or none
Resolving(ch, modes, aged) ==
    /\ Active(ch)
    /\ AtTemplate(Top(ch))
    /\ CurrentTemplate(Top(ch)).expiryMode \in modes
    /\ (CurrentTemplate(Top(ch)).maxAge # 0) = aged

\* this step, the chain either starts executing the directive's target or the
\* directive fails before any call (unknown id, target already in flight)
ExecutesOrFails(ch) ==
    \/ StartsDependency(ch, CurrentTemplate(Top(ch)).requestId)
    \/ Raised(ch, "NotFound")
    \/ Raised(ch, "Circular")

\* C7: with expiryMode always, a resolution never asks the cache: whatever the
\* cache holds, the step that resolves the directive starts an execution of the
\* dependency (or fails before any call), so a value only ever comes from a
\* fresh execution.
C7_AlwaysReexecutes ==
    /\ [](\A ch \in Chains, aged \in BOOLEAN :
            Resolving(ch, {"always"}, aged) => Top(ch).pc = "scan")
    /\ [][\A ch \in Chains, aged \in BOOLEAN :
            (Resolving(ch, {"always"}, aged) /\ stack'[ch] # stack[ch])
                => ExecutesOrFails(ch)]_vars

\* the dependency is executing for an always directive while the cache holds a
\* live, non-empty entry for that directive
C7_Witness ==
    \E ch \in Chains :
        /\ Len(stack[ch]) = 2
        /\ AtTemplate(stack[ch][1])
        /\ CurrentTemplate(stack[ch][1]).expiryMode = "always"
        /\ CacheLive(owner[ch], CacheKey(CurrentTemplate(stack[ch][1])))
        /\ ~Falsy(cache[owner[ch]][CacheKey(CurrentTemplate(stack[ch][1]))].value)

\* C8: with expiryMode when-expired or none and maxAge m, a resolution made less
\* than m seconds after the directive's value was cached does not execute the
\* dependency, and one made m seconds or more after it does.
C8_CachedForMaxAge ==
    [][\A ch \in Chains :
          (/\ Resolving(ch, {"when-expired", ""}, TRUE)
           /\ Top(ch).pc \in {"has", "get"}
           /\ stack'[ch] # stack[ch])
              => LET t == CurrentTemplate(Top(ch))
                     c == owner[ch]
                     fresh == /\ CacheKey(t) \in DOMAIN cache[c]
                              /\ now < cache[c][CacheKey(t)].createdAt + t.maxAge * MsPerSecond
                 IN  IF fresh
                     THEN ~StartsDependency(ch, t.requestId)
                     ELSE ExecutesOrFails(ch)]_vars

\* C9: with expiryMode when-expired or none and no maxAge, a resolution never asks
\* the cache, the steps of the resolution leave the cache store as it is, and
\* every resolution starts an execution of the dependency (or fails before any
\* call).
C9_NoMaxAgeNeverCaches ==
    /\ [](\A ch \in Chains :
            Resolving(ch, {"when-expired", ""}, FALSE) => Top(ch).pc = "scan")
    /\ [][\A ch \in Chains :
            (Resolving(ch, {"when-expired", ""}, FALSE) /\ stack'[ch] # stack[ch])
                => (ExecutesOrFails(ch) /\ cache' = cache)]_vars
    /\ [][\A ch \in Chains :
            (/\ Len(stack[ch]) >= 2
             /\ Len(stack'[ch]) = Len(stack[ch]) - 1
             /\ CurrentTemplate(Caller(ch)).expiryMode \in {"when-expired", ""}
             /\ CurrentTemplate(Caller(ch)).maxAge = 0)
                => cache' = cache]_vars

\* the dependency is executing for a when-expired directive without maxAge while
\* the cache holds a live entry under that directive's key
C9_Witness ==
    \E ch \in Chains :
        /\ Len(stack[ch]) = 2
        /\ AtTemplate(stack[ch][1])
        /\ CurrentTemplate(stack[ch][1]).expiryMode = "when-expired"
        /\ CurrentTemplate(stack[ch][1]).maxAge = 0
        /\ CacheLive(owner[ch], CacheKey(CurrentTemplate(stack[ch][1])))

\* the templates of the valid directives written in the collection
TemplatesWritten ==
    {ParseResponseTemplate(DirectiveArgs(r)[i]) : <<r, i>> \in
        {p \in (DOMAIN collection.requests) \X (1..2) :
            /\ p[2] <= Len(DirectiveArgs(p[1]))
            /\ TemplateArgsValid(DirectiveArgs(p[1])[p[2]])}}

\* the resolved path of a template: its jsonPath, its xPath, or none
ResolvedPath(t) ==
    IF t.jsonPath # "" THEN <<"jsonPath", t.jsonPath>>
    ELSE IF t.xPath # "" THEN <<"xPath", t.xPath>> ELSE <<"none", "">>

SameCoordinates(t1, t2) ==
    /\ t1.requestId = t2.requestId
    /\ t1.field = t2.field
    /\ ResolvedPath(t1) = ResolvedPath(t2)

MaxDriverCalls == 2    \* driver operations started over all callers

CacheKeys == {"k1", "k2"}
TtlOptions == {0, MsPerSecond}          \* options?.ttl: none, or one second

\* the keys of a store whose entries are expired / not expired at time t
ExpiredKeys(store, t) == {k \in DOMAIN store : IsExpired(store[k], t)}
LiveKeys(store, t) == DOMAIN store \ ExpiredKeys(store, t)

Without(store, keys) == [k \in DOMAIN store \ keys |-> store[k]]

\* the entry set(key, value, {ttl}) builds
NewEntry(value, t, ttl) ==
    [value |-> value, createdAt |-> t, expiresAt |-> IF ttl # 0 THEN t + ttl ELSE 0]

\* a caller may start an operation
CanCall(s) ==
    /\ ops[s].pc \in {"idle", "done"}
    /\ driverCalls < MaxDriverCalls

Returned(driver, op, key, keys, count) ==
    [driver |-> driver, op |-> op, key |-> key, ttl |-> 0, pc |-> "done",
     entries |-> EmptyMap, at |-> now, keys |-> keys, count |-> count]

\* request chaining and request resolution take no part in a driver operation
ChainIdle ==
    UNCHANGED <<collection, now, stack, owner, calls, result, warnings, executionStacks,
                jar, caches, table, cookieCall, extraction, prompt,
                environment, tree, resolution, node>>

\* InMemoryCacheDriver.set
MemorySet(s, key, ttl) ==
    /\ CanCall(s)
    /\ cache' = CacheAfterSet("A", key, "v", ttl)
    /\ ops' = [ops EXCEPT ![s] = Returned("memory", "set", key, {}, 0)]
    /\ driverCalls' = driverCalls + 1
    /\ ChainIdle /\ UNCHANGED file

\* InMemoryCacheDriver.delete
MemoryDelete(s, key) ==
    /\ CanCall(s)
    /\ cache' = [cache EXCEPT !["A"] = Without(@, {key})]
    /\ ops' = [ops EXCEPT ![s] = Returned("memory", "delete", key, {}, 0)]
    /\ driverCalls' = driverCalls + 1
    /\ ChainIdle /\ UNCHANGED file

\* InMemoryCacheDriver.get, and has, which is get(key) !== undefined
MemoryGet(s, op, key) ==
    /\ CanCall(s)
    /\ op \in {"get", "has"}
    /\ cache' = CacheAfterGet("A", key)
    /\ ops' = [ops EXCEPT ![s] =
          Returned("memory", op, key, IF CacheLive("A", key) THEN {key} ELSE {}, 0)]
    /\ driverCalls' = driverCalls + 1
    /\ ChainIdle /\ UNCHANGED file

\* InMemoryCacheDriver.getAll()
MemoryGetAll(s) ==
    /\ CanCall(s)
    /\ cache' = [cache EXCEPT !["A"] = Without(@, ExpiredKeys(@, now))]
    /\ ops' = [ops EXCEPT ![s] =
          Returned("memory", "getAll", "", LiveKeys(cache["A"], now), 0)]
    /\ driverCalls' = driverCalls + 1
    /\ ChainIdle /\ UNCHANGED file

\* InMemoryCacheDriver.size: this.cache.size
MemorySize(s) ==
    /\ CanCall(s)
    /\ ops' = [ops EXCEPT ![s] =
          Returned("memory", "size", "", {}, Cardinality(DOMAIN cache["A"]))]
    /\ driverCalls' = driverCalls + 1
    /\ ChainIdle /\ UNCHANGED <<cache, file>>

DriverOps == {"get", "has", "set", "delete", "getAll", "size"}

\* a caller calls an operation of the FileCacheDriver: it runs to its first await,
\* the read of the cache file
FileStart(s, op, key, ttl) ==
    /\ CanCall(s)
    /\ op \in DriverOps
    /\ key \in (IF op \in {"getAll", "size"} THEN {""} ELSE CacheKeys)
    /\ ttl \in (IF op = "set" THEN TtlOptions ELSE {0})
    /\ ops' = [ops EXCEPT ![s] =
          [driver |-> "file", op |-> op, key |-> key, ttl |-> ttl, pc |-> "read",
           entries |-> EmptyMap, at |-> 0, keys |-> {}, count |-> 0]]
    /\ driverCalls' = driverCalls + 1
    /\ ChainIdle /\ UNCHANGED <<cache, file>>

\* what the operation does with the entries read, up to its return or to its
\* await of writeAllCacheEntries
AfterRead(o, entries, t) ==
    LET done(keys, count) == [o EXCEPT !.pc = "done", !.at = t, !.keys = keys, !.count = count]
        write(changed, keys) ==
            [o EXCEPT !.pc = "write", !.at = t, !.entries = changed, !.keys = keys]
    IN  CASE o.op \in {"get", "has"} ->
                IF o.key \notin DOMAIN entries THEN done({}, 0)
                ELSE IF IsExpired(entries[o.key], t) THEN write(Without(entries, {o.key}), {})
                ELSE done({o.key}, 0)
          [] o.op = "set" ->
                write((o.key :> NewEntry("v", t, o.ttl)) @@ entries, {})
          [] o.op = "delete" ->
                IF o.key \notin DOMAIN entries THEN done({}, 0)
                ELSE write(Without(entries, {o.key}), {})
          [] o.op = "getAll" ->
                IF ExpiredKeys(entries, t) # {}
                THEN write(Without(entries, ExpiredKeys(entries, t)), LiveKeys(entries, t))
                ELSE done(LiveKeys(entries, t), 0)
          [] OTHER -> done({}, Cardinality(DOMAIN entries))

\* readAllCacheEntries resolves with the file's content
FileRead(s) ==
    /\ ops[s].pc = "read"
    /\ ops' = [ops EXCEPT ![s] = AfterRead(ops[s], file, now)]
    /\ ChainIdle /\ UNCHANGED <<cache, file, driverCalls>>

\* writeAllCacheEntries(entries) resolves: the file holds the entries written
FileWrite(s) ==
    /\ ops[s].pc = "write"
    /\ file' = ops[s].entries
    /\ ops' = [ops EXCEPT ![s].pc = "done"]
    /\ ChainIdle /\ UNCHANGED <<cache, driverCalls>>

DriverInit == Init /\ collection = SpecExample

DriverNext ==
    \/ \E s \in Slots, key \in CacheKeys, ttl \in TtlOptions : MemorySet(s, key, ttl)
    \/ \E s \in Slots, key \in CacheKeys : MemoryDelete(s, key)
    \/ \E s \in Slots, op \in {"get", "has"}, key \in CacheKeys : MemoryGet(s, op, key)
    \/ \E s \in Slots : MemoryGetAll(s)
    \/ \E s \in Slots : MemorySize(s)
    \/ \E s \in Slots, op \in DriverOps, key \in CacheKeys \cup {""}, ttl \in TtlOptions :
          FileStart(s, op, key, ttl)
    \/ \E s \in Slots : FileRead(s)
    \/ \E s \in Slots : FileWrite(s)
    \/ Tick

DriverSpec == DriverInit /\ [][DriverNext]_vars

\* this step, the operation of caller s returns
Returns(s) == ops'[s] # ops[s] /\ ops'[s].pc = "done"

\* the keys a read operation looks at
KeysRead(o, store) == IF o.op \in {"get", "has"} THEN {o.key} \cap DOMAIN store ELSE DOMAIN store

\* C11: in every cache driver a read operation (get, has, getAll, size) treats an
\* entry whose expiresAt has been reached as absent (it is not returned and not
\* counted) and evicts it: when the read returns, the store holds no entry the
\* read looked at that was expired when the read looked at it.
C11_ReadsEvictExpired ==
    [][\A s \in Slots :
          (Returns(s) /\ ops'[s].op \in {"get", "has", "getAll", "size"})
              => LET o == ops'[s]
                     before == IF o.driver = "memory" THEN cache["A"]
                               ELSE IF ops[s].pc = "read" THEN file ELSE file'
                     after == IF o.driver = "memory" THEN cache'["A"] ELSE file'
                 IN  /\ o.keys \cap ExpiredKeys(before, o.at) = {}
                     /\ o.op = "size" => o.count = Cardinality(LiveKeys(before, o.at))
                     /\ KeysRead(o, after) \cap ExpiredKeys(after, o.at) = {}]_vars

\* C12: the single-file driver serializes its writes: when two set operations on
\* different keys, the only operations made on the store, have both completed
\* (whether or not one was started before the other returned), the file holds
\* both keys.
C12_NoLostUpdate ==
    \A s1, s2 \in Slots :
        (/\ s1 # s2
         /\ driverCalls = 2
         /\ ops[s1].driver = "file" /\ ops[s1].op = "set" /\ ops[s1].pc = "done"
         /\ ops[s2].driver = "file" /\ ops[s2].op = "set" /\ ops[s2].pc = "done"
         /\ ops[s1].key # ops[s2].key)
            => {ops[s1].key, ops[s2].key} \subseteq DOMAIN file

(***************************************************************************)
(* InsomniaConfigEnvironment.getVariable and                               *)
(* InsomniaTemplateResolver.resolve.  A string is the sequence of its      *)
(* spans: literal text, a {{ _.NAME }} reference, or a directive.  An      *)
(* environment holds data (name -> string) and overrides (name -> any      *)
(* JavaScript value).                                                      *)
(***************************************************************************)
StackLimit == 4        \* calls of resolve the engine's call stack has room for

Var(n) == [kind |-> "var", text |-> n, args |-> <<>>]

JsString(spans) == [type |-> "string", spans |-> spans, number |-> 0]
JsNumber(n) == [type |-> "number", spans |-> <<>>, number |-> n]
JsNull == [type |-> "null", spans |-> <<>>, number |-> 0]

\* String(value) for the numbers the environments use
NumberText(n) == IF n = 3000 THEN "3000" ELSE "NaN"

\* String(value)
StringOf(v) ==
    CASE v.type = "string" -> v.spans
      [] v.type = "number" -> <<Lit(NumberText(v.number))>>
      [] OTHER -> <<Lit("null")>>

\* the base value first, an override only for a name without one
getVariableBaseFirst(env, key) ==
    IF key \in DOMAIN env.data
    THEN [defined |-> TRUE, spans |-> env.data[key]]
    ELSE IF key \in DOMAIN env.overrides /\ env.overrides[key].type # "null"
    THEN [defined |-> TRUE, spans |-> StringOf(env.overrides[key])]
    ELSE [defined |-> FALSE, spans |-> <<>>]

\* getVariable(key): defined is FALSE for the result undefined
getVariable(env, key) ==
    IF key \in DOMAIN env.overrides
    THEN IF env.overrides[key].type # "null"
         THEN [defined |-> TRUE, spans |-> StringOf(env.overrides[key])]
         ELSE [defined |-> FALSE, spans |-> <<>>]
    ELSE IF key \in DOMAIN env.data
    THEN [defined |-> TRUE, spans |-> env.data[key]]
    ELSE [defined |-> FALSE, spans |-> <<>>]

\* a call of resolve returns a string or throws
Resolved(spans) == [kind |-> "ok", spans |-> spans, name |-> ""]
Throws(kind, name) == [kind |-> kind, spans |-> <<>>, name |-> name]

\* the span of an undefined variable disappears
OnUndefinedBlank(options, span) == Resolved(<<>>)

\* the callback of replace for a variable getVariable has no value for
OnUndefined(options, span) ==
    IF options.strict THEN Throws("UndefinedVariable", span.text)
    ELSE IF options.undefinedReplacement # ""
    THEN Resolved(<<Lit(options.undefinedReplacement)>>)
    ELSE Resolved(<<span>>)

\* resolve(template) as call number depth on the call stack: the matches are
\* replaced from left to right, a value found is resolved by a nested call;
\* past StackLimit the engine throws RangeError
RECURSIVE resolve(_, _, _, _)
RECURSIVE ReplaceFrom(_, _, _, _, _)
ReplaceFrom(env, options, spans, i, depth) ==
    IF i > Len(spans) THEN Resolved(<<>>)
    ELSE LET span == spans[i]
             value == getVariable(env, span.text)
             head == IF span.kind # "var" THEN Resolved(<<span>>)
                     ELSE IF value.defined THEN resolve(env, options, value.spans, depth + 1)
                     ELSE OnUndefined(options, span)
         IN  IF head.kind # "ok" THEN head
             ELSE LET rest == ReplaceFrom(env, options, spans, i + 1, depth)
                  IN  IF rest.kind # "ok" THEN rest
                      ELSE Resolved(head.spans \o rest.spans)

resolve(env, options, template, depth) ==
    IF depth > StackLimit THEN Throws("RangeError", "")
    ELSE IF template = <<>> THEN Resolved(template)
    ELSE ReplaceFrom(env, options, template, 1, depth)

\* the options of createTemplateResolver()
DefaultOptions == [strict |-> FALSE, undefinedReplacement |-> ""]
ResolverOptions ==
    [strict : BOOLEAN, undefinedReplacement : {"", "N/A"}]

VarNames == {"A", "B"}

\* the environments: A and B with or without a base value, A with or without
\* an override; a value may refer to A, to B or to U, which is never defined
DataValues(n) ==
    IF n = "A"
    THEN {<<Lit("a")>>, <<>>, <<Var("B")>>, <<Var("A")>>, <<Lit("x"), Var("U")>>}
    ELSE {<<Lit("B")>>, <<Var("A")>>}
OverrideValues == {JsString(<<Lit("o")>>), JsString(<<Var("B")>>), JsNumber(3000), JsNull}

DataMaps ==
    UNION {{f \in [D -> UNION {DataValues(n) : n \in D}] : \A n \in D : f[n] \in DataValues(n)} :
              D \in SUBSET VarNames}
OverrideMaps == UNION {[D -> OverrideValues] : D \in SUBSET {"A"}}
Environments == {[data |-> d, overrides |-> o] : d \in DataMaps, o \in OverrideMaps}

\* the strings resolve is called with
Templates ==
    {<<Var("A")>>, <<Var("B")>>, <<Var("U")>>,
     <<Lit("x"), Var("U"), Lit("y"), Var("A")>>}

(***************************************************************************)
(* InsomniaClient.getRequestNode: the request found by its path, the       *)
(* headers and authentication its parent folders give it, and its strings  *)
(* resolved with createTemplateResolver().                                 *)
(***************************************************************************)
Header(name, value, disabled) == [name |-> name, value |-> value, disabled |-> disabled]
Authentication(type, token) ==
    [present |-> TRUE, type |-> type, token |-> token, username |-> <<>>,
     password |-> <<>>, disabled |-> FALSE]

\* a string is truthy unless it is empty (or absent)
Truthy(spans) == spans # <<>>

\* InsomniaConfigAuthentication.isDisabled
isDisabled(authentication) == authentication.type = "none"

\* toLowerCase, on the header names the trees use
LowerText(text) ==
    CASE text = "A" -> "a"
      [] text = "B" -> "b"
      [] text = "C" -> "c"
      [] text = "U" -> "u"
      [] OTHER -> text
toLowerCase(spans) == [i \in DOMAIN spans |-> [spans[i] EXCEPT !.text = LowerText(@)]]

\* resolver.resolve(string) of a call that returns
ResolvedString(env, string) == resolve(env, DefaultOptions, string, 1).spans

\* the headers resolveInheritedConfig collects from one folder
FolderHeaders(env, headers) ==
    LET kept(h) == ~h.disabled /\ Truthy(h.name) /\ Truthy(h.value)
        own == SelectSeq(headers, kept)
    IN  [i \in DOMAIN own |->
            Header(ResolvedString(env, own[i].name), ResolvedString(env, own[i].value),
                   own[i].disabled)]

\* resolveInheritedConfig: the loop over the parent folders from folder i on,
\* root first, with the headers and the authentication collected so far
RECURSIVE resolveInheritedConfigFrom(_, _, _, _)
resolveInheritedConfigFrom(env, folders, i, inherited) ==
    IF i > Len(folders) THEN inherited
    ELSE LET folder == folders[i]
             auth == folder.authentication
         IN  resolveInheritedConfigFrom(env, folders, i + 1,
                [headers |-> inherited.headers \o FolderHeaders(env, folder.headers),
                 authentication |->
                    IF auth.present /\ ~isDisabled(auth)
                    THEN [auth EXCEPT !.token = ResolvedString(env, @),
                                      !.username = ResolvedString(env, @),
                                      !.password = ResolvedString(env, @),
                                      !.disabled = isDisabled(auth)]
                    ELSE inherited.authentication])

resolveInheritedConfig(env, folders) ==
    resolveInheritedConfigFrom(env, folders, 1,
        [headers |-> <<>>, authentication |-> NoAuthentication])

\* the names compared as they are written
mergeHeadersCaseSensitive(inheritedHeaders, requestHeaders) ==
    LET named(h) == Truthy(h.name)
        own == SelectSeq(requestHeaders, named)
        requestHeaderNames == {own[i].name : i \in DOMAIN own}
        free(h) == Truthy(h.name) /\ h.name \notin requestHeaderNames
    IN  own \o SelectSeq(inheritedHeaders, free)

\* mergeHeaders
mergeHeaders(inheritedHeaders, requestHeaders) ==
    LET named(h) == Truthy(h.name)
        own == SelectSeq(requestHeaders, named)
        requestHeaderNames == {toLowerCase(own[i].name) : i \in DOMAIN own}
        free(h) == Truthy(h.name) /\ toLowerCase(h.name) \notin requestHeaderNames
    IN  own \o SelectSeq(inheritedHeaders, free)

\* InsomniaConfigRequest.getResolvedHeaders
getResolvedHeaders(env, headers) ==
    [i \in DOMAIN headers |->
        Header(ResolvedString(env, headers[i].name), ResolvedString(env, headers[i].value),
               headers[i].disabled)]

\* sanitizeUrl: "http://" is put in front of a url without a protocol, unless
\* new URL() rejects the result (an empty host, or a host that is no literal text)
HasProtocol(url) == url # <<>> /\ url[1] \in {Lit("http://h/"), Lit("https://h/")}
sanitizeUrl(url) ==
    IF HasProtocol(url) THEN url
    ELSE IF url # <<>> /\ url[1].kind = "lit" THEN <<Lit("http://")>> \o url
    ELSE url

\* the strings a call of getRequestNode passes to resolve
StringsResolved(t) ==
    {t.request.url, t.request.body}
    \cup UNION {{t.request.headers[i].name, t.request.headers[i].value} :
                    i \in DOMAIN t.request.headers}
    \cup UNION {UNION {{f.headers[i].name, f.headers[i].value} :
                          i \in {j \in DOMAIN f.headers : ~f.headers[j].disabled}}
                    \cup (IF f.authentication.present /\ ~isDisabled(f.authentication)
                          THEN {f.authentication.token, f.authentication.username,
                                f.authentication.password}
                          ELSE {}) :
                    f \in {t.folders[i] : i \in DOMAIN t.folders}}

\* getRequestNode(path) for the path of tree t; an error thrown by resolve
\* is not caught
getRequestNode(env, t) ==
    IF \E string \in StringsResolved(t) : resolve(env, DefaultOptions, string, 1).kind # "ok"
    THEN [kind |-> "RangeError"]
    ELSE LET inheritedConfig == resolveInheritedConfig(env, t.folders)
             own == t.request.authentication
         IN  [kind |-> "ok",
              url |-> sanitizeUrl(ResolvedString(env, t.request.url)),
              headers |-> mergeHeaders(inheritedConfig.headers,
                                       getResolvedHeaders(env, t.request.headers)),
              body |-> ResolvedString(env, t.request.body),
              authentication |->
                 IF own.present THEN [own EXCEPT !.disabled = isDisabled(own)]
                 ELSE inheritedConfig.authentication]

\* the authentication blocks of the root folder, of the folder in it and of
\* the request: absent, bearer, or of type none
AuthChoices(token) ==
    {NoAuthentication, Authentication("bearer", token), Authentication("none", <<>>)}

Folder(headers, authentication) == [headers |-> headers, authentication |-> authentication]
Request(url, headers, body, authentication) ==
    [url |-> url, headers |-> headers, body |-> body, authentication |-> authentication]

ExampleHeaders == <<Header(<<Lit("A")>>, <<Lit("2")>>, FALSE), Header(<<Lit("B")>>, <<Lit("3")>>, FALSE)>>

AuthTrees ==
    {[folders |-> <<Folder(<<>>, r), Folder(<<>>, s)>>,
      request |-> Request(<<Lit("h/"), Var("A")>>, ExampleHeaders, <<Var("A")>>, a)] :
        r \in AuthChoices(<<Lit("r")>>),
        s \in AuthChoices(<<Lit("s"), Var("A")>>),
        a \in AuthChoices(<<Var("A")>>)}

RootHeaders ==
    {<<>>,
     <<Header(<<Lit("A")>>, <<Lit("1")>>, FALSE)>>,
     <<Header(<<Lit("A")>>, <<Lit("1")>>, FALSE), Header(<<Lit("C")>>, <<Lit("5")>>, TRUE)>>}
SubHeaders ==
    {<<>>, <<Header(<<Var("B")>>, <<Lit("9"), Var("A")>>, FALSE)>>}
RequestHeaders ==
    {<<>>,
     ExampleHeaders,
     <<Header(<<Lit("a")>>, <<Lit("2")>>, FALSE)>>,
     <<Header(<<>>, <<Lit("4")>>, FALSE)>>,
     <<Header(<<Var("A")>>, <<Lit("7")>>, FALSE)>>,
     <<Header(<<Lit("A")>>, <<Lit("2")>>, TRUE)>>}

HeaderTrees ==
    {[folders |-> <<Folder(r, NoAuthentication), Folder(s, NoAuthentication)>>,
      request |-> Request(<<Lit("http://h/")>>, h, <<>>, NoAuthentication)] :
        r \in RootHeaders, s \in SubHeaders, h \in RequestHeaders}

Trees == AuthTrees \cup HeaderTrees
ExampleTree ==
    [folders |-> <<Folder(<<Header(<<Lit("A")>>, <<Lit("1")>>, FALSE)>>, NoAuthentication)>>,
     request |-> Request(<<Lit("http://h/")>>, ExampleHeaders, <<>>, NoAuthentication)]

\* the environments the trees are resolved in
TreeEnvironments ==
    {e \in Environments :
        /\ "B" \in DOMAIN e.data => e.data["B"] = <<Lit("B")>>
        /\ "A" \in DOMAIN e.data => e.data["A"] \in {<<Lit("a")>>, <<>>, <<Var("A")>>}
        /\ "A" \in DOMAIN e.overrides => e.overrides["A"] = JsString(<<Lit("o")>>)}

\* a caller calls resolver.resolve(template) of a resolver made with options
Resolve(template, options) ==
    /\ LET r == resolve(environment, options, template, 1)
       IN  resolution' = [kind |-> r.kind, spans |-> r.spans, name |-> r.name,
                          template |-> template, options |-> options]
    /\ UNCHANGED <<collection, now, stack, owner, calls, result, warnings, cache,
                   executionStacks, file, caches, ops, driverCalls, environment, tree, node,
                   jar, table, cookieCall, extraction, prompt>>

\* a caller calls client.getRequestNode(path)
GetRequestNode ==
    /\ node' = getRequestNode(environment, tree)
    /\ UNCHANGED <<collection, now, stack, owner, calls, result, warnings, cache,
                   executionStacks, file, caches, ops, driverCalls, environment, tree, resolution,
                   jar, table, cookieCall, extraction, prompt>>

NodeInit ==
    /\ collection = SpecExample
    /\ ChainsIdle
    /\ DriversIdle
    /\ UnitsIdle
    /\ \/ environment \in Environments /\ tree = ExampleTree
       \/ environment \in TreeEnvironments /\ tree \in Trees
    /\ resolution = NotCalled
    /\ node = NotCalled

NodeNext ==
    \/ \E template \in Templates, options \in ResolverOptions : Resolve(template, options)
    \/ GetRequestNode

NodeSpec == NodeInit /\ [][NodeNext]_vars

\* the value the environment holds for V: its override entry if it has one,
\* else its base value
Chosen(V) ==
    IF V \in DOMAIN environment.overrides THEN environment.overrides[V]
    ELSE JsString(environment.data[V])

\* V has a value: an override that is not null, or no override and a base value
IsDefinedVariable(V) ==
    IF V \in DOMAIN environment.overrides THEN environment.overrides[V].type # "null"
    ELSE V \in DOMAIN environment.data

NoReference(spans) == \A i \in DOMAIN spans : spans[i].kind # "var"

UndefinedAt(template) ==
    {i \in DOMAIN template : template[i].kind = "var" /\ ~IsDefinedVariable(template[i].text)}
OnlyUndefined(template) ==
    \A i \in DOMAIN template : template[i].kind = "var" => i \in UndefinedAt(template)
FirstUndefined(template) ==
    template[CHOOSE i \in UndefinedAt(template) : \A j \in UndefinedAt(template) : i <= j].text

\* C18 as stated: in lenient mode a reference to an undefined variable is
\* returned unchanged, whatever the resolver's other options are.
C18_LenientKeepsSpan ==
    (/\ resolution.kind # "none"
     /\ ~resolution.options.strict
     /\ UndefinedAt(resolution.template) # {}
     /\ OnlyUndefined(resolution.template))
        => resolution.kind = "ok" /\ resolution.spans = resolution.template

\* C18: resolving a string that refers to an undefined variable returns, in
\* lenient mode with the default (empty) undefinedReplacement, the string with
\* that span unchanged, and with an undefinedReplacement set the string with the
\* span replaced by it; in strict mode it fails with an error that names an
\* undefined variable, the first one of the string.
C18_LenientDefaultKeepsSpan ==
    LET template == resolution.template
        options == resolution.options
    IN  (resolution.kind # "none" /\ UndefinedAt(template) # {})
            => /\ options.strict
                    => /\ resolution.kind # "ok"
                       /\ resolution.kind = "UndefinedVariable"
                              => ~IsDefinedVariable(resolution.name)
                       /\ OnlyUndefined(template)
                              => /\ resolution.kind = "UndefinedVariable"
                                 /\ resolution.name = FirstUndefined(template)
               /\ (~options.strict /\ resolution.kind = "ok")
                    => \A i \in UndefinedAt(template) :
                          \E j \in DOMAIN resolution.spans :
                             resolution.spans[j] =
                                IF options.undefinedReplacement = "" THEN template[i]
                                ELSE Lit(options.undefinedReplacement)
               /\ (~options.strict /\ OnlyUndefined(template))
                    => /\ resolution.kind = "ok"
                       /\ options.undefinedReplacement = ""
                              => resolution.spans = template

\* lenient by default: "x{{ _.U }}y{{ _.A }}" with A = "a" gave "x{{ _.U }}ya"
C18_Witness ==
    /\ resolution.kind = "ok"
    /\ resolution.options = DefaultOptions
    /\ resolution.template = <<Lit("x"), Var("U"), Lit("y"), Var("A")>>
    /\ resolution.spans = <<Lit("x"), Var("U"), Lit("y"), Lit("a")>>

\* C19: resolve terminates by itself in every environment: a call returns a
\* string or fails with an error of the resolver (an undefined variable in
\* strict mode, a recursion limit), and never recurses until the call stack
\* of the engine is exhausted.
C19_ResolveBoundsItsRecursion ==
    resolution.kind \in {"none", "ok", "UndefinedVariable", "RecursionLimit"}

\* an authentication block that is defined and not disabled
Usable(authentication) == authentication.present /\ ~isDisabled(authentication)

\* the authentication of the deepest folder that has a usable one
DeepestUsable(folders) ==
    LET usable == {i \in DOMAIN folders : Usable(folders[i].authentication)}
    IN  IF usable = {} THEN NoAuthentication
        ELSE folders[CHOOSE i \in usable : \A j \in usable : j <= i].authentication

\* final is the block written in the collection as block; a final block that is
\* disabled adds no credentials (addAuthenticationHeaders) and counts as absent
SameBlock(final, block) ==
    IF final.present /\ ~final.disabled
    THEN /\ block.present
         /\ final.type = block.type
         /\ final.token \in {block.token, ResolvedString(environment, block.token)}
    ELSE ~block.present

\* C13: the final authentication of a resolved request is the request's own
\* authentication if it is defined and not disabled, otherwise that of the
\* deepest ancestor folder with a defined, non-disabled authentication,
\* otherwise absent.
C13_FinalAuthentication ==
    node.kind = "ok"
        => SameBlock(node.authentication,
                     IF Usable(tree.request.authentication) THEN tree.request.authentication
                     ELSE DeepestUsable(tree.folders))

\* two header names equal ignoring case
SameName(a, b) == toLowerCase(a) = toLowerCase(b)

\* the request's own headers and the headers its folders give, both resolved
OwnHeaders == getResolvedHeaders(environment, tree.request.headers)
InheritedHeaders == resolveInheritedConfig(environment, tree.folders).headers
Named(headers) == LET named(h) == Truthy(h.name) IN SelectSeq(headers, named)
Collides(h) == \E i \in DOMAIN OwnHeaders : SameName(OwnHeaders[i].name, h.name)

\* C14 as stated: the resolved headers contain every request header, contain
\* no inherited header whose name equals a request header's name ignoring case,
\* and list the other inherited headers after the request's own.
C14_EveryRequestHeaderKept ==
    node.kind = "ok"
        => /\ \A i \in DOMAIN OwnHeaders :
                 \E j \in DOMAIN node.headers : node.headers[j] = OwnHeaders[i]
           /\ \A j \in DOMAIN node.headers :
                 j > Len(Named(OwnHeaders)) => ~Collides(node.headers[j])

\* C14: the resolved headers are the request's headers that have a name, in
\* their order, followed by the inherited headers whose name equals no request
\* header's name ignoring case, in their order: on a collision the request's
\* header is the only one kept.
C14_RequestHeadersWin ==
    node.kind = "ok"
        => LET own == Named(OwnHeaders)
               free(h) == ~Collides(h)
           IN  /\ Len(node.headers) >= Len(own)
               /\ SubSeq(node.headers, 1, Len(own)) = own
               /\ SubSeq(node.headers, Len(own) + 1, Len(node.headers))
                      = SelectSeq(InheritedHeaders, free)
               /\ \A j \in DOMAIN node.headers : j > Len(own) => free(node.headers[j])

\* the request's a:2 shadows the root folder's A:1, and the header of the
\* inner folder, named B by a variable, comes after it
C14_Witness ==
    /\ node.kind = "ok"
    /\ Len(node.headers) = 2
    /\ node.headers[1] = Header(<<Lit("a")>>, <<Lit("2")>>, FALSE)
    /\ node.headers[2].name = <<Lit("B")>>
    /\ \E i \in DOMAIN InheritedHeaders : InheritedHeaders[i].name = <<Lit("A")>>

\* a string still refers to a variable that has a value
DefinedReference(spans) ==
    \E i \in DOMAIN spans : spans[i].kind = "var" /\ IsDefinedVariable(spans[i].text)

\* C20: no field of a resolved request (url, header names and values, body,
\* authentication token, username and password, own or inherited) holds a
\* {{ _.NAME }} span of a variable NAME the environment defines.
C20_EveryFieldResolved ==
    node.kind = "ok"
        => /\ ~DefinedReference(node.url)
           /\ ~DefinedReference(node.body)
           /\ \A i \in DOMAIN node.headers :
                 ~DefinedReference(node.headers[i].name)
                     /\ ~DefinedReference(node.headers[i].value)
           /\ ~DefinedReference(node.authentication.token)
           /\ ~DefinedReference(node.authentication.username)
           /\ ~DefinedReference(node.authentication.password)

(***************************************************************************)
(* ParseScriptTemplate on requests with several directives: the fields of  *)
(* the payload in the order the function awaits processTemplateString for  *)
(* them, and the directives of one string in the order of the matches.     *)
(***************************************************************************)
\* the authentication fields first
ScriptFieldsAuthFirst(payload) ==
    LET named(n, string) == IF Truthy(string) THEN <<Field(n, string)>> ELSE <<>>
        headers == payload.headers
        params == payload.body.params
    IN  named("authentication.token", payload.authentication.token)
        \o named("authentication.username", payload.authentication.username)
        \o named("authentication.password", payload.authentication.password)
        \o named("url", payload.url)
        \o (IF headers = <<>> THEN <<>>
            ELSE named("headers.name", headers[1].name)
                 \o named("headers.value", headers[1].value))
        \o named("body.text", payload.body.text)
        \o (IF params = <<>> THEN <<>>
            ELSE <<Field("body.params.name", params[1].name),
                   Field("body.params.value", params[1].value)>>)

\* the strings of a payload with one header and one body parameter, in the
\* order ParseScriptTemplate processes them
ScriptFields(payload) ==
    LET named(n, string) == IF Truthy(string) THEN <<Field(n, string)>> ELSE <<>>
        headers == payload.headers
        params == payload.body.params
    IN  named("url", payload.url)
        \o (IF headers = <<>> THEN <<>>
            ELSE named("headers.name", headers[1].name)
                 \o named("headers.value", headers[1].value))
        \o named("body.text", payload.body.text)
        \o (IF params = <<>> THEN <<>>
            ELSE <<Field("body.params.name", params[1].name),
                   Field("body.params.value", params[1].value)>>)
        \o named("authentication.token", payload.authentication.token)
        \o named("authentication.username", payload.authentication.username)
        \o named("authentication.password", payload.authentication.password)

\* the same directive twice in one string, never cached
TwinDirective == <<"response", "body", "req_auth", B64Wrapped>>
TwinCollection ==
    [name |-> "twin",
     requests |->
        [r \in {"req_auth", "req_twice"} |->
            IF r = "req_auth" THEN NoTemplates
            ELSE <<Field("url", <<Dir(TwinDirective), Lit("/"), Dir(TwinDirective)>>)>>],
     roots |-> {"req_twice"},
     server |-> {TokenResponse("T1")}]

\* a directive in every field: url and authentication token use the same cached
\* directive on req_1, the others name no request of the collection
CachedDirective == <<"response", "body", "req_1", B64Wrapped, "when-expired", "3600">>
OrderedPayload ==
    [url |-> <<Lit("http://h/"), Dir(CachedDirective)>>,
     headers |-> <<[name |-> <<Lit("X-"), Dir(<<"response", "body", "req_none">>)>>,
                    value |-> <<Dir(<<"response", "body", "req_none", "$.x">>),
                                Dir(<<"response", "status", "req_none">>)>>]>>,
     body |-> [text |-> <<Dir(<<"response", "body", "req_none", "$.a">>)>>,
               params |-> <<[name |-> <<Dir(<<"response", "body", "req_none", "$.b">>)>>,
                             value |-> <<Dir(<<"response", "body", "req_none", "$.c">>)>>]>>],
     authentication |->
        [token |-> <<Dir(CachedDirective)>>,
         username |-> <<Dir(<<"response", "body", "req_none", "$.d">>)>>,
         password |-> <<Dir(<<"response", "body", "req_none", "$.e">>)>>]]

OrderedCollection ==
    [name |-> "ordered",
     requests |->
        [r \in {"req_1", "req_ordered"} |->
            IF r = "req_ordered" THEN ScriptFields(OrderedPayload) ELSE NoTemplates],
     roots |-> {"req_ordered"},
     server |-> {TokenResponse("T1")}]

\* a request whose directives all sit in a disabled header and in a disabled
\* body parameter; request() leaves both off the wire
DisabledPayload ==
    [url |-> <<Lit("http://h/")>>,
     headers |-> <<[name |-> <<Lit("X-Off")>>,
                    value |-> <<Dir(<<"response", "body", "req_auth", B64Wrapped,
                                      "when-expired", "3600">>)>>,
                    disabled |-> TRUE]>>,
     body |-> [text |-> <<>>,
               params |-> <<[name |-> <<Lit("p")>>,
                             value |-> <<Dir(<<"response", "body", "req_auth", B64Wrapped,
                                               "always">>)>>,
                             disabled |-> TRUE]>>],
     authentication |-> [token |-> <<>>, username |-> <<>>, password |-> <<>>]]

DisabledCollection ==
    [name |-> "disabled",
     requests |->
        [r \in {"req_auth", "req_off"} |->
            IF r = "req_off" THEN ScriptFields(DisabledPayload) ELSE NoTemplates],
     roots |-> {"req_off"},
     server |-> {TokenResponse("T1")}]

EngineCollections == {TwinCollection, OrderedCollection, DisabledCollection}

EngineInit ==
    /\ OthersIdle
    /\ collection \in EngineCollections
    /\ ChainsIdle

EngineSpec == EngineInit /\ [][Next]_vars

\* C15: per-directive isolation: when a request has gone out, every directive
\* of its strings that is still in the string as written is one whose own
\* resolution failed; a directive that was resolved has been replaced by its
\* value at its own position, whatever happened to the other directives.
C15_DirectiveIsolation ==
    \A ch \in Chains :
        result[ch].kind = "ok"
            => \A i \in DOMAIN result[ch].sent :
                  \A j \in DOMAIN result[ch].sent[i].spans :
                     LET span == result[ch].sent[i].spans[j]
                     IN  span.kind = "dir" => span.text # ""

\* the place of a field in the order the specification gives
FieldRank(n) ==
    CASE n = "url" -> 1
      [] n = "headers.name" -> 2
      [] n = "headers.value" -> 3
      [] n = "body.text" -> 4
      [] n = "body.params.name" -> 5
      [] n = "body.params.value" -> 6
      [] n = "authentication.token" -> 7
      [] n = "authentication.username" -> 8
      [] n = "authentication.password" -> 9
      [] OTHER -> 2

\* directive p comes before directive q: an earlier field, or the same string
\* and further left
ComesBefore(f, p, q) ==
    \/ FieldRank(f.out[p[1]].name) < FieldRank(f.out[q[1]].name)
    \/ p[1] = q[1] /\ p[2] < q[2]

\* the directive at position p of a frame has been dealt with: replaced by a
\* value, or left in place with its error reported
Processed(f, p) ==
    LET span == f.out[p[1]].spans[p[2]]
    IN  span.kind # "dir" \/ span.text # ""

\* the directives of frame f, in the order it meets them, are in the order of
\* the specification, and those dealt with are the first ones of that order
InOrder(f) ==
    LET pos == DirPositions(f.req)
    IN  \A a, b \in DOMAIN pos :
           a < b => /\ ComesBefore(f, pos[a], pos[b])
                    /\ Processed(f, pos[b]) => Processed(f, pos[a])

\* an earlier directive of frame f with the cache key of the current one has
\* been replaced by value v
EarlierValue(f, v) ==
    \E j \in 1..(f.k - 1) :
        LET p == DirPositions(f.req)[j]
            written == collection.requests[f.req][p[1]].spans[p[2]]
        IN  /\ TemplateArgsValid(written.args)
            /\ CacheKey(ParseResponseTemplate(written.args)) = CacheKey(CurrentTemplate(f))
            /\ f.out[p[1]].spans[p[2]] = Val(v)

\* C16: the directives of a request are resolved one at a time, in the order
\* url, header name and value, body text, body parameter name and value,
\* authentication token, username, password, and from left to right within a
\* string: only the innermost request of a call chain is running, a directive
\* is dealt with only when all that come before it have been, and a directive
\* that asks the cache finds the entry an earlier directive of the same
\* request wrote under its key.
C16_SequentialInOrder ==
    \A ch \in Chains :
        /\ \A i \in 1..(Len(stack[ch]) - 1) : stack[ch][i].pc = "await"
        /\ Active(ch) => InOrder(Top(ch))
        /\ (Active(ch) /\ Top(ch).pc = "has" /\ collection = OrderedCollection)
              => \A v \in {"T1", ""} :
                    EarlierValue(Top(ch), v)
                        => /\ CacheLive(owner[ch], CacheKey(CurrentTemplate(Top(ch))))
                           /\ calls = 1
                                => cache[owner[ch]][CacheKey(CurrentTemplate(Top(ch)))].value = v

\* the one call made has sent req_ordered: req_1 ran for the url and the
\* authentication token took the url's value from the cache
C16_Witness ==
    \E ch \in Chains :
        /\ calls = 1
        /\ result[ch].kind = "ok"
        /\ result[ch].req = "req_ordered"
        /\ result[ch].sent[1].spans[2] = Val("T1")
        /\ result[ch].sent[7].name = "authentication.token"
        /\ result[ch].sent[7].spans[1] = Val("T1")

(***************************************************************************)
(* The cache policy against the tables of the specification.               *)
(***************************************************************************)
\* the table of the cache-use policy: never reads; when-expired and no mode
\* read when a maxAge was supplied; always and no-history do not read
TableReads(mode, supplied) ==
    \/ mode = "never"
    \/ mode \in {"when-expired", ""} /\ supplied

\* the table of the cache-write policy: never and always write; when-expired
\* and no mode write when a maxAge was supplied; no-history does not write
TableWrites(mode, supplied) ==
    \/ mode \in {"never", "always"}
    \/ mode \in {"when-expired", ""} /\ supplied

PositiveAges == {1, 2, 3600}

\* the chain's innermost execution returns value to the directive that awaits it
ReturnsValue(ch, value) ==
    /\ Len(stack[ch]) >= 2
    /\ Top(ch).pc = "fetch"
    /\ stack'[ch] = Popped(ch, Replaced(Caller(ch), value))[ch]

\* C28: for every expiry mode (never, always, no-history, when-expired, none)
\* and every maxAge (none, positive) the policy functions give the tables'
\* answers, and the resolution acts on them: a directive asks the cache exactly
\* when its row of the use table says so, and the value its dependency returns
\* is written under the directive's key exactly when its row of the write table
\* says so (otherwise the store is left as it is).
C28_PolicyAgreesWithTables ==
    /\ [](\A mode \in ExpiryModes \cup {""}, maxAge \in PositiveAges \cup {0} :
            /\ shouldUseCache(mode, maxAge) <=> TableReads(mode, maxAge # 0)
            /\ shouldCacheResult(mode, maxAge) <=> TableWrites(mode, maxAge # 0))
    /\ [][\A ch \in Chains :
            (/\ Active(ch) /\ AtTemplate(Top(ch)) /\ Top(ch).pc = "scan"
             /\ stack'[ch] # stack[ch])
                => LET t == CurrentTemplate(Top(ch))
                   IN  (stack'[ch] = SetTop(ch, [Top(ch) EXCEPT !.pc = "has"])[ch])
                            <=> TableReads(t.expiryMode, t.maxAge # 0)]_vars
    /\ [][\A ch \in Chains, response \in collection.server :
            LET t == CurrentTemplate(Caller(ch))
                v == ExtractedString(response, t)
                c == owner[ch]
            IN  ReturnsValue(ch, v)
                    => IF TableWrites(t.expiryMode, t.maxAge # 0)
                       THEN /\ CacheKey(t) \in DOMAIN cache'[c]
                            /\ cache'[c][CacheKey(t)].value = v
                            /\ cache'[c][CacheKey(t)].createdAt = now
                       ELSE cache' = cache]_vars

\* a never directive without maxAge has asked the cache and reads the value
\* T1 that an earlier return of its dependency wrote under its key
C28_Witness ==
    \E ch \in Chains :
        /\ collection = PolicyCollection("never", "")
        /\ Active(ch) /\ AtTemplate(Top(ch)) /\ Top(ch).pc = "get"
        /\ CacheLive(owner[ch], CacheKey(CurrentTemplate(Top(ch))))
        /\ cache[owner[ch]][CacheKey(CurrentTemplate(Top(ch)))].value = "T1"

(***************************************************************************)
(* Concurrent top-level calls on one client.                               *)
(***************************************************************************)
\* the collections whose response directives form no cycle
AcyclicCollections == Collections \ {CyclicCollection}

\* C29: when the response directives of the collection form no cycle, no
\* directive fails with the circular-dependency error, also when two top-level
\* calls run on the same client at the same time and both depend on the same
\* target request.
C29_NoCircularWithoutCycle ==
    collection \in AcyclicCollections =>
        \A ch \in Chains : \A w \in warnings[ch] : w.kind # "Circular"

\* C30: within one call chain no execution of a request id is started while an
\* execution of the same id is in progress higher in the chain, the top-level
\* request included: the requests in progress in a chain are all different.
C30_NoReentryInChain ==
    \A ch \in Chains :
        \A i, j \in 1..Len(stack[ch]) :
            i < j => stack[ch][i].req # stack[ch][j].req

(***************************************************************************)
(* The extraction functions on their own: processResponseForTemplate with  *)
(* its extractJsonPath and extractXPath, and the resolver's                *)
(* extractVariableNames.  A call is drawn with its arguments; the action   *)
(* applies the function to them.                                           *)
(***************************************************************************)
\* the response bodies: JSON texts, texts that are no JSON, markup
JsonBodies ==
    {JsonText("T1"), JsonText(""), NestedText, QuotedText, NullText, NumberBodyText}
MarkupBodies == {LinkText, TwoLinksText, TokenXmlText, BareLinkText, SText}
Bodies == JsonBodies \cup MarkupBodies \cup {"not json", ""}

\* the path argument of a directive: JSONPaths and XPaths
JsonPaths ==
    {"$.access_token", "$.data.token", "$.data.n", "$.data.none", "$.data.empty",
     "$.data.missing", "$.data.none.x", "$.access_token.x", "$.data", "$.constructor",
     "$.data.toString", "$"}
XPaths == {"//token", "//a", "//a/@href", "//@href", "/root/token", "/token", "/a/@href"}

ExtractionFields == {"body", "status"}

\* the strings extractVariableNames is called with: up to MaxSpans spans
MaxSpans == 3
NameSpans == {Var("A"), Var("B"), Lit("x")}
NameStrings == UNION {[1..n -> NameSpans] : n \in 0..MaxSpans}

RECURSIVE extractVariableNames(_)
\* the while loop over templateRegex.exec(str): every match's name is pushed
extractVariableNames(str) ==
    IF str = <<>> THEN <<>>
    ELSE (IF Head(str).kind = "var" THEN <<Head(str).text>> ELSE <<>>)
         \o extractVariableNames(Tail(str))

Arguments(fn, response, template, str) ==
    [kind |-> "arguments", fn |-> fn, response |-> response, template |-> template,
     str |-> str]

ExtractionCalls ==
    {Arguments("processResponseForTemplate", TextResponse(body),
               ParseResponseTemplate(<<"response", field, "req_auth", path>>), <<>>) :
        body \in Bodies, field \in ExtractionFields, path \in JsonPaths \cup XPaths}
    \cup {Arguments("extractVariableNames", TextResponse(""),
                    ParseResponseTemplate(<<"response", "body", "req_auth">>), str) :
            str \in NameStrings}

\* nothing but the extraction moves
ExtractionOnly ==
    UNCHANGED <<collection, now, stack, owner, calls, result, warnings, cache,
                executionStacks, jar, file, caches, ops, driverCalls, environment, tree,
                resolution, node, table, cookieCall, prompt>>

\* processResponseForTemplate(response, template) returns
ProcessResponseForTemplate ==
    /\ extraction.kind = "arguments"
    /\ extraction.fn = "processResponseForTemplate"
    /\ extraction' = [extraction EXCEPT !.kind = "returned"]
                        @@ [value |-> ExtractedString(extraction.response, extraction.template)]
    /\ ExtractionOnly

\* resolver.extractVariableNames(str) returns
ExtractVariableNames ==
    /\ extraction.kind = "arguments"
    /\ extraction.fn = "extractVariableNames"
    /\ extraction' = [extraction EXCEPT !.kind = "returned"]
                        @@ [value |-> extractVariableNames(extraction.str)]
    /\ ExtractionOnly

ExtractInit ==
    /\ collection = SpecExample
    /\ ChainsIdle
    /\ DriversIdle
    /\ ResolutionIdle
    /\ table = {}
    /\ cookieCall = NotCalled
    /\ prompt = NotCalled
    /\ extraction \in ExtractionCalls

ExtractNext == ProcessResponseForTemplate \/ ExtractVariableNames

ExtractSpec == ExtractInit /\ [][ExtractNext]_vars

\* a call of processResponseForTemplate with a JSONPath / an XPath has returned
ReturnedFor(kind) ==
    /\ extraction.kind = "returned"
    /\ extraction.fn = "processResponseForTemplate"
    /\ extraction.template.field = "body"
    /\ IF kind = "jsonPath" THEN extraction.template.jsonPath # ""
       ELSE extraction.template.xPath # ""

RECURSIVE ValueAt(_, _)
\* the value a parsed body holds at a path, one own property per segment;
\* undefined when a segment is missing or met on a value that is no object
ValueAt(value, parts) ==
    IF parts = <<>> THEN value
    ELSE IF value.t = "object" /\ Head(parts) \in DOMAIN value.props
         THEN ValueAt(value.props[Head(parts)], Tail(parts))
         ELSE JsonUndefined

\* C26: a directive with a JSONPath on a body yields the empty string when a
\* segment of the path is missing from the parsed body or an intermediate
\* value is not an object (or the body is no JSON), without an error, and the
\* value found at the path, stringified, when the whole path exists.
C26_JsonPathYieldsValueOrEmpty ==
    ReturnedFor("jsonPath") =>
        LET body == JsonParse(extraction.response.raw)
            found == IF body = SyntaxError THEN JsonUndefined
                     ELSE ValueAt(body, JsonPathParts(extraction.template.jsonPath))
        IN  extraction.value = IF found.t = "undefined" THEN "" ELSE found.s

\* the value of attribute attr on the first element of a markup text named tag
\* ("" when the text has no such element or the element no such attribute)
FirstAttributeValue(text, tag, attr) ==
    LET elements == XmlElements(text)
        named == {i \in DOMAIN elements : elements[i].tag = tag}
        attrs == elements[Leftmost(named)].attrs
        which == {k \in DOMAIN attrs : attrs[k].name = attr}
    IN  IF named = {} \/ which = {} THEN "" ELSE attrs[Leftmost(which)].value

\* C25: for an XPath of the form //tag/@attr the extraction gives the first
\* matching attribute value: the value of attribute attr on the first tag
\* element of the body.
C25_AttributeXPathGivesAttribute ==
    (ReturnedFor("xPath") /\ extraction.template.xPath = "//a/@href")
        => extraction.value = FirstAttributeValue(extraction.response.raw, "a", "href")

\* the places of a string that refer to a variable, and the first place of a name
ReferencesOf(str) == {i \in DOMAIN str : str[i].kind = "var"}
FirstReference(str, name) ==
    Leftmost({i \in ReferencesOf(str) : str[i].text = name})

\* C27: extractVariableNames(str) returns every variable name referenced in
\* str exactly once, in the order of the names' first appearance.
C27_EachNameOnceInOrder ==
    (extraction.kind = "returned" /\ extraction.fn = "extractVariableNames")
        => LET str == extraction.str
               names == extraction.value
           IN  /\ {names[i] : i \in DOMAIN names} = {str[i].text : i \in ReferencesOf(str)}
               /\ \A i, j \in DOMAIN names :
                     i < j => /\ names[i] # names[j]
                              /\ FirstReference(str, names[i]) < FirstReference(str, names[j])

(***************************************************************************)
(* A request whose own HTTP call fails after its dependency has completed. *)
(***************************************************************************)
\* a response that carries the token and sets the cookie sid to it
CookieResponse(v, attributes) ==
    TokenResponse(v) @@ [setCookie |-> <<SetCookieHeader("sid", v, attributes)>>]

\* req_profile depends on req_auth; every response sets a cookie
FailureCollection(mode, age, attributes) ==
    [name |-> "failure",
     requests |->
        [r \in {"req_auth", "req_profile"} |->
            IF r = "req_auth" THEN NoTemplates
            ELSE Bearer(<<"response", "body", "req_auth", B64Wrapped, mode>>
                        \o (IF age = "" THEN <<>> ELSE <<age>>))],
     roots |-> {"req_profile"},
     server |-> {CookieResponse("T1", attributes)}]

\* entries and cookies without expiry, and with one second to live
KeptCollection == FailureCollection("never", "", <<>>)
FailureCollections ==
    {KeptCollection,
     FailureCollection("when-expired", "1", << <<"Max-Age", "1">> >>),
     FailureCollection("always", "", << <<"Secure", "">> >>)}

FailureInit ==
    /\ OthersIdle
    /\ collection \in FailureCollections
    /\ ChainsIdle

FailureSpec == FailureInit /\ [][Next]_vars

\* the stores of a client hold what a completed execution of req_auth wrote:
\* the directive's value under its key and the cookie sid
HoldsDependencyWrites(c) ==
    LET key == CacheKey(ParseResponseTemplate(DirectiveArgs("req_profile")[1]))
    IN  /\ key \in DOMAIN cache[c]
        /\ cache[c][key].value = "T1"
        /\ getCookieKey("sid", "h") \in DOMAIN jar[c]
        /\ jar[c][getCookieKey("sid", "h")].value = "T1"

\* C23: when a request's own HTTP call times out or fails after its chain
\* dependencies have completed, the caller receives the error, and the step
\* leaves the cache and the cookie jar as they are: the cache entry and the
\* cookie that the completed execution of the dependency wrote are still in
\* the stores when the call has ended with the error.
C23_FailureKeepsDependencyWrites ==
    /\ [][\A ch \in Chains :
            (/\ Len(stack[ch]) = 1
             /\ Top(ch).pc = "fetch"
             /\ stack'[ch] = <<>>
             /\ result'[ch].kind # "ok")
                => /\ result'[ch].kind = "HttpError"
                   /\ cache' = cache
                   /\ jar' = jar]_vars
    /\ [](\A ch \in Chains :
            (/\ collection = KeptCollection
             /\ result[ch].kind = "HttpError"
             /\ warnings[ch] = {})
                => HoldsDependencyWrites(owner[ch]))

\* the only call made executed req_auth for its directive, then its own HTTP
\* call failed: the caller has the error, the stores hold what req_auth wrote
C23_Witness ==
    \E ch \in Chains :
        /\ collection = KeptCollection
        /\ calls = 1
        /\ result[ch].kind = "HttpError"
        /\ warnings[ch] = {}
        /\ HoldsDependencyWrites(owner[ch])

(***************************************************************************)
(* The cookie drivers on their own: one driver, chosen when the client is  *)
(* built, is called by one caller while the clock advances.  The           *)
(* InMemoryCookieDriver keeps its Map in jar["A"], the SQLiteCookieDriver  *)
(* its rows in table.                                                       *)
(***************************************************************************)
MaxCookieCalls == 3    \* driver calls made by the caller
MaxCookieTicks == 2    \* seconds the clock advances

CookieDrivers == {"InMemoryCookieDriver", "SQLiteCookieDriver"}
CookieKeys == {"sid"}
CookiePaths == {"/", "/api"}
CookieUrls == {"http://h.com/", "https://h.com/", "https://h.com/api/x", "https://evilh.com/"}

\* the expiry a setCookie call asks for: none, a date, a number of seconds
CookieExpiries ==
    {[expires |-> Absent, maxAge |-> Absent],
     [expires |-> Given(MsPerSecond), maxAge |-> Absent],
     [expires |-> Absent, maxAge |-> Given(0)],
     [expires |-> Absent, maxAge |-> Given(1)]}

CookieOptionsSet ==
    {CookieOptions("h.com", path, secure, FALSE, e.expires, e.maxAge) :
        path \in CookiePaths, secure \in BOOLEAN, e \in CookieExpiries}

\* the cookies the driver holds
Stored(driver) ==
    IF driver = "InMemoryCookieDriver"
    THEN {jar["A"][k] : k \in DOMAIN jar["A"]}
    ELSE table

\* the call that has returned leaves a record: what was called, when, with
\* which url, the cookies returned (for getCookieCount, the cookies counted)
\* and, when the call before it was a getCookieHeader, that call
CookieReturn(op, url, returned, count) ==
    cookieCall' =
        [kind |-> "returned", driver |-> cookieCall.driver, n |-> cookieCall.n + 1,
         op |-> op, at |-> now, url |-> url, returned |-> returned, count |-> count,
         before |-> IF cookieCall.op = "getCookieHeader"
                    THEN <<[url |-> cookieCall.url, returned |-> cookieCall.returned]>>
                    ELSE <<>>]

\* the driver leaves its store as the call left it
CookieStore(memory, rows) ==
    IF cookieCall.driver = "InMemoryCookieDriver"
    THEN jar' = [jar EXCEPT !["A"] = memory] /\ UNCHANGED table
    ELSE table' = rows /\ UNCHANGED jar

\* nothing but the cookie driver and the clock move
CookiesOnly ==
    UNCHANGED <<collection, stack, owner, calls, result, warnings, cache,
                executionStacks, file, caches, ops, driverCalls, environment, tree,
                resolution, node, extraction, prompt>>

\* driver.setCookie(key, "v", options)
SetCookie(key, options) ==
    /\ cookieCall.n < MaxCookieCalls
    /\ CookieStore(setCookie(jar["A"], key, "v", options, now),
                   SqlSetCookie(table, key, "v", options, now))
    /\ CookieReturn("setCookie", "", {}, 0)
    /\ UNCHANGED now
    /\ CookiesOnly

\* driver.getCookie(key, "h.com")
GetCookie(key) ==
    /\ cookieCall.n < MaxCookieCalls
    /\ LET memory == getCookie(jar["A"], key, "h.com", now)
           sql == SqlGetCookie(table, key, "h.com", now)
       IN  /\ CookieStore(memory.cookies, sql.rows)
           /\ CookieReturn("getCookie", "",
                           IF cookieCall.driver = "InMemoryCookieDriver"
                           THEN memory.returned ELSE sql.returned, 0)
    /\ UNCHANGED now
    /\ CookiesOnly

\* driver.getCookies()
GetCookies ==
    /\ cookieCall.n < MaxCookieCalls
    /\ LET memory == getCookies(jar["A"], now)
           sql == SqlGetCookies(table, now)
       IN  /\ CookieStore(memory.cookies, sql.rows)
           /\ CookieReturn("getCookies", "",
                           IF cookieCall.driver = "InMemoryCookieDriver"
                           THEN memory.returned ELSE sql.returned, 0)
    /\ UNCHANGED now
    /\ CookiesOnly

\* driver.getCookieHeader(url)
GetCookieHeader(url) ==
    /\ cookieCall.n < MaxCookieCalls
    /\ LET memory == getCookieHeader(jar["A"], url, now)
           sql == SqlGetCookieHeader(table, url, now)
       IN  /\ CookieStore(memory.cookies, sql.rows)
           /\ CookieReturn("getCookieHeader", url,
                           IF cookieCall.driver = "InMemoryCookieDriver"
                           THEN memory.sent ELSE sql.sent, 0)
    /\ UNCHANGED now
    /\ CookiesOnly

\* driver.getCookieCount()
GetCookieCount ==
    /\ cookieCall.n < MaxCookieCalls
    /\ LET memory == getCookieCount(jar["A"], now)
           sql == SqlGetCookieCount(table, now)
       IN  /\ CookieStore(memory.cookies, sql.rows)
           /\ CookieReturn("getCookieCount", "",
                           IF cookieCall.driver = "InMemoryCookieDriver"
                           THEN {memory.cookies[k] : k \in DOMAIN memory.cookies}
                           ELSE sql.rows,
                           IF cookieCall.driver = "InMemoryCookieDriver"
                           THEN memory.count ELSE sql.count)
    /\ UNCHANGED now
    /\ CookiesOnly

\* a second passes between two calls
CookieTick ==
    /\ now < MaxCookieTicks * MsPerSecond
    /\ now' = now + MsPerSecond
    /\ UNCHANGED <<jar, table, cookieCall>>
    /\ CookiesOnly

\* a client built with one of the drivers, at the start of a second or in
\* the middle of one
CookieInit ==
    /\ collection = SpecExample
    /\ ChainsIdle!2 /\ ChainsIdle!3 /\ ChainsIdle!4 /\ ChainsIdle!5 /\ ChainsIdle!6
    /\ ChainsIdle!7 /\ ChainsIdle!8 /\ ChainsIdle!9
    /\ now \in {0, MsPerSecond \div 2}
    /\ DriversIdle
    /\ ResolutionIdle
    /\ table = {}
    /\ extraction = NotCalled
    /\ prompt = NotCalled
    /\ \E driver \in CookieDrivers :
            cookieCall = [kind |-> "none", driver |-> driver, n |-> 0, op |-> "",
                          at |-> 0, url |-> "", returned |-> {}, count |-> 0, before |-> <<>>]

CookieNext ==
    \/ \E key \in CookieKeys, options \in CookieOptionsSet : SetCookie(key, options)
    \/ \E key \in CookieKeys : GetCookie(key)
    \/ GetCookies
    \/ \E url \in CookieUrls : GetCookieHeader(url)
    \/ GetCookieCount
    \/ CookieTick

CookieSpec == CookieInit /\ [][CookieNext]_vars

\* the definition of expiry applied to the expiry a cookie was set with (for
\* a row of the SQLite table, the expiry its setCookie call was given)
ExpiredAsSet(cookie, t) ==
    LET asked == IF "asked" \in DOMAIN cookie THEN cookie.asked
                 ELSE [expires |-> cookie.expires, maxAge |-> cookie.maxAge]
    IN  \/ asked.expires # Absent /\ t > asked.expires[1]
        \/ asked.maxAge # Absent /\ t > cookie.creation + asked.maxAge[1] * MsPerSecond

\* C21: a cookie is expired exactly when now > expires (when expires is set)
\* or now > creation + maxAge*1000 (when maxAge is set); no call of
\* getCookie, getCookies or getCookieHeader returns a cookie that is expired
\* at the time of the call, and getCookieCount counts none.
C21_NoExpiredCookieReturned ==
    (/\ cookieCall.kind = "returned"
     /\ cookieCall.op \in {"getCookie", "getCookies", "getCookieHeader", "getCookieCount"})
        => \A cookie \in cookieCall.returned : ~ExpiredAsSet(cookie, cookieCall.at)

\* the domain and path tests of getCookieHeader
MatchesUrl(cookie, url) ==
    /\ IF cookie.hostOnly THEN cookie.domain = url.hostname
       ELSE EndsWith(url.hostname, cookie.domain) \/ url.hostname = cookie.domain
    /\ StartsWith(url.pathname, cookie.path)

\* what tells one stored cookie from another
CookieId(cookie) == <<cookie.key, cookie.domain, cookie.path>>

\* C22: the Cookie header getCookieHeader builds for an http:// URL holds no
\* secure cookie; the header it builds for an https:// URL holds every secure
\* cookie the driver keeps whose domain and path match the URL.
C22_SecureOnlyOverHttps ==
    (/\ cookieCall.kind = "returned"
     /\ cookieCall.op = "getCookieHeader")
        => LET url == ParseUrl(cookieCall.url)
           IN  /\ url.protocol = "http:"
                    => \A cookie \in cookieCall.returned : ~cookie.secure
               /\ url.protocol = "https:"
                    => \A cookie \in Stored(cookieCall.driver) :
                          (cookie.secure /\ MatchesUrl(cookie, url))
                             => CookieId(cookie) \in {CookieId(sent) : sent \in cookieCall.returned}

\* a secure cookie is stored; the header for http://h.com/ left it out and
\* the header built next, for https://h.com/, holds it
C22_Witness ==
    /\ cookieCall.kind = "returned"
    /\ cookieCall.op = "getCookieHeader"
    /\ cookieCall.url = "https://h.com/"
    /\ \E cookie \in cookieCall.returned : cookie.secure
    /\ cookieCall.before # <<>>
    /\ cookieCall.before[1].url = "http://h.com/"
    /\ \A cookie \in cookieCall.before[1].returned : ~cookie.secure

(***************************************************************************)
(* processPromptTemplate(args, client) on its own: one caller resolves     *)
(* prompt directives one after another on client A while the operator      *)
(* types and the clock advances; every await is a step.                    *)
(***************************************************************************)
PromptTtl == 60000     \* client.setCachedValue(fullCacheKey, userInput, 60000)
MaxPromptCalls == 3    \* prompt directives resolved
MaxPromptTicks == 3    \* half minutes the clock advances

\* args[5]?.toLowerCase() === "true"
IsTrue(arg) == arg \in {"true", "TRUE", "True"}

\* the arguments of a prompt directive: title, label, default value, cache
\* key, is_secret and default_to_cached_value, and a directive one short
PromptArgs ==
    {<<"prompt", "Login", "Username:", default, cacheKey, isSecret, cached>> :
        default \in {"", "admin"}, cacheKey \in {"", "username"},
        isSecret \in {"false", "true"}, cached \in {"false", "TRUE"}}
    \cup {<<"prompt", "Login", "Username:", "admin", "username", "false">>}

\* what the operator types before Enter, trimmed
Typed == {"", "u1", "u2"}

\* cacheKey ? `prompt:${cacheKey}` : null
fullCacheKey(args) == IF args[5] # "" THEN <<"prompt", args[5]>> ELSE <<>>

\* a prompt that caches what the operator typed only when it may also read it
CachesOnlyWhenDefaulting(args) == fullCacheKey(args) # <<>> /\ IsTrue(args[7])

\* if (fullCacheKey): the value obtained is cached
CachesInput(args) == fullCacheKey(args) # <<>>

\* getUserInput: getRegularInput resolves input || defaultValue,
\* getSecretInput the characters typed
getUserInput(defaultValue, isSecret, typed) ==
    IF ~isSecret /\ typed = "" THEN defaultValue ELSE typed

\* nothing but the prompt, client A's cache and the clock move
PromptOnly ==
    UNCHANGED <<collection, stack, owner, calls, result, warnings,
                executionStacks, jar, file, caches, ops, driverCalls, environment, tree,
                resolution, node, table, cookieCall, extraction>>

\* the entry client A's cache holds under a key, if any
EntryOf(key) == IF key \in DOMAIN cache["A"] THEN <<cache["A"][key]>> ELSE <<>>

\* processPromptTemplate(args, client) is called: fewer than 7 arguments
\* throw; then straight to the first await
PromptCall(args) ==
    /\ prompt.kind \in {"none", "returned", "thrown"}
    /\ prompt.n < MaxPromptCalls
    /\ prompt' =
        [n |-> prompt.n + 1, args |-> args, startAt |-> now, prompted |-> FALSE,
         value |-> "", inputAt |-> 0, at |-> now,
         entry |-> IF Len(args) >= 7 /\ fullCacheKey(args) # <<>>
                   THEN EntryOf(fullCacheKey(args)) ELSE <<>>,
         kind |-> IF Len(args) < 7 THEN "thrown" ELSE "running",
         pc |-> IF Len(args) < 7 THEN "done"
                ELSE IF IsTrue(args[7]) /\ fullCacheKey(args) # <<>> THEN "has"
                ELSE "input"]
    /\ UNCHANGED <<now, cache>>
    /\ PromptOnly

\* await client.hasCachedValue(fullCacheKey)
PromptHas ==
    /\ prompt.kind = "running"
    /\ prompt.pc = "has"
    /\ cache' = CacheAfterGet("A", fullCacheKey(prompt.args))
    /\ prompt' = [prompt EXCEPT !.pc = IF CacheLive("A", fullCacheKey(prompt.args))
                                       THEN "get" ELSE "input"]
    /\ UNCHANGED now
    /\ PromptOnly

\* await client.getCachedValue(fullCacheKey); a value that is neither
\* undefined nor null is returned as a string
PromptGet ==
    /\ prompt.kind = "running"
    /\ prompt.pc = "get"
    /\ cache' = CacheAfterGet("A", fullCacheKey(prompt.args))
    /\ prompt' = IF CacheLive("A", fullCacheKey(prompt.args))
                 THEN [prompt EXCEPT !.kind = "returned", !.pc = "done", !.at = now,
                                     !.value = cache["A"][fullCacheKey(prompt.args)].value]
                 ELSE [prompt EXCEPT !.pc = "input"]
    /\ UNCHANGED now
    /\ PromptOnly

\* await getUserInput(promptLabel, defaultValue, isSecret): the operator
\* types a line; without a cache key the input is returned
PromptInput(typed) ==
    /\ prompt.kind = "running"
    /\ prompt.pc = "input"
    /\ LET userInput == getUserInput(prompt.args[4], IsTrue(prompt.args[6]), typed)
       IN  prompt' =
            IF CachesInput(prompt.args)
            THEN [prompt EXCEPT !.pc = "set", !.prompted = TRUE, !.inputAt = now,
                                !.value = userInput]
            ELSE [prompt EXCEPT !.kind = "returned", !.pc = "done", !.prompted = TRUE,
                                !.inputAt = now, !.at = now, !.value = userInput]
    /\ UNCHANGED <<now, cache>>
    /\ PromptOnly

\* await client.setCachedValue(fullCacheKey, userInput, 60000); return userInput
PromptSet ==
    /\ prompt.kind = "running"
    /\ prompt.pc = "set"
    /\ cache' = CacheAfterSet("A", fullCacheKey(prompt.args), prompt.value, PromptTtl)
    /\ prompt' = [prompt EXCEPT !.kind = "returned", !.pc = "done", !.at = now]
    /\ UNCHANGED now
    /\ PromptOnly

\* half a minute passes
PromptTick ==
    /\ now < MaxPromptTicks * (PromptTtl \div 2)
    /\ now' = now + PromptTtl \div 2
    /\ UNCHANGED <<cache, prompt>>
    /\ PromptOnly

PromptInit ==
    /\ collection = SpecExample
    /\ ChainsIdle
    /\ DriversIdle
    /\ ResolutionIdle
    /\ table = {}
    /\ cookieCall = NotCalled
    /\ extraction = NotCalled
    /\ prompt = [kind |-> "none", n |-> 0]

PromptNext ==
    \/ \E args \in PromptArgs : PromptCall(args)
    \/ PromptHas
    \/ PromptGet
    \/ \E typed \in Typed : PromptInput(typed)
    \/ PromptSet
    \/ PromptTick

PromptSpec == PromptInit /\ [][PromptNext]_vars

\* the entry the cache held under the directive's key when the call began was
\* unexpired at time t
HeldLive(t) == prompt.entry # <<>> /\ ~IsExpired(prompt.entry[1], t)

\* C24: when a prompt directive with cache key k has returned a value the
\* operator typed, the cache holds that value under prompt:k with an expiry
\* 60 seconds after it was stored, whatever defaultToCachedValue is; a prompt
\* directive with key k and defaultToCachedValue true returns the cached
\* value without prompting when the entry is unexpired for the whole call,
\* and prompts the operator when the entry has expired (or there is none);
\* without defaultToCachedValue it always prompts.
C24_PromptCachedForAMinute ==
    (prompt.kind = "returned" /\ fullCacheKey(prompt.args) # <<>>)
        => LET key == fullCacheKey(prompt.args)
               defaultToCachedValue == IsTrue(prompt.args[7])
           IN  /\ prompt.prompted
                    => /\ key \in DOMAIN cache["A"]
                       /\ cache["A"][key].value = prompt.value
                       /\ cache["A"][key].expiresAt - PromptTtl >= prompt.inputAt
                       /\ cache["A"][key].expiresAt - PromptTtl <= prompt.at
               /\ (defaultToCachedValue /\ HeldLive(prompt.at))
                    => /\ ~prompt.prompted
                       /\ prompt.value = prompt.entry[1].value
               /\ (defaultToCachedValue /\ ~HeldLive(prompt.startAt)) => prompt.prompted
               /\ ~defaultToCachedValue => prompt.prompted

\* a prompt with defaultToCachedValue has returned u1 without prompting, half
\* a minute after an earlier prompt cached what the operator typed
C24_Witness ==
    /\ prompt.kind = "returned"
    /\ IsTrue(prompt.args[7])
    /\ ~prompt.prompted
    /\ prompt.value = "u1"
    /\ prompt.entry # <<>>
    /\ prompt.startAt > prompt.entry[1].createdAt

\* the driver's getCookie(key, domain) at time t on the store a step leaves
RetrievableNext(key, domain, t) ==
    IF cookieCall.driver = "InMemoryCookieDriver"
    THEN getCookie(jar'["A"], key, domain, t).returned
    ELSE SqlGetCookie(table', key, domain, t).returned

\* C35: when setCookie(key, value, {domain, maxAge: m}) with m >= 1 has
\* replaced a cookie held for the same key and domain, getCookie(key, domain)
\* still returns the cookie, with the new value, half a second before m
\* seconds have passed since that call.
C35_MaxAgeCountsFromTheCall ==
    [][(/\ cookieCall'.op = "setCookie"
        /\ cookieCall'.n # cookieCall.n)
            => \A cookie \in Stored(cookieCall.driver)' \ Stored(cookieCall.driver) :
                  (/\ cookie.maxAge # Absent
                   /\ cookie.maxAge[1] >= 1
                   /\ \E old \in Stored(cookieCall.driver) :
                          old.key = cookie.key /\ old.domain = cookie.domain)
                      => \E kept \in RetrievableNext(cookie.key, cookie.domain,
                                        now + cookie.maxAge[1] * MsPerSecond
                                            - MsPerSecond \div 2) :
                            kept.value = cookie.value]_vars

\* host ends in a dot followed by domain
IsSubdomain(host, domain) == <<host, domain>> \in {<<"h.com", "com">>, <<"evilh.com", "com">>}

\* C36: a cookie that is not hostOnly is in the Cookie header getCookieHeader
\* builds only when the request host is the cookie's domain or ends in a dot
\* followed by it, and the request path starts with the cookie's path.
C36_SentToDomainAndSubdomainsOnly ==
    (/\ cookieCall.kind = "returned"
     /\ cookieCall.op = "getCookieHeader")
        => LET url == ParseUrl(cookieCall.url)
           IN  \A cookie \in cookieCall.returned :
                  ~cookie.hostOnly
                     => /\ \/ url.hostname = cookie.domain
                           \/ IsSubdomain(url.hostname, cookie.domain)
                        /\ StartsWith(url.pathname, cookie.path)

(***************************************************************************)
(* processCookieTemplate(args, client) on its own: client A was built from *)
(* a collection environment (data) and, when a .env file was loaded, its   *)
(* variables (overrides, also what client.getEnvVariables() returns); its  *)
(* cookie jar holds cookies of h.com.                                      *)
(***************************************************************************)
\* the text of a resolved string
TextOf(spans) ==
    CASE spans = <<>> -> ""
      [] Len(spans) = 1 /\ spans[1].kind = "lit" -> spans[1].text
      [] spans = <<Var("A")>> -> "{{ _.A }}"
      [] spans = <<Var("B")>> -> "{{ _.B }}"
      [] spans = <<Lit("x"), Var("U")>> -> "x{{ _.U }}"
      [] OTHER -> "?"

\* key.startsWith('_.') and the name after the prefix
IsEnvReference(arg) == arg \in {"_.A", "_.B"}
ReferenceName(arg) == IF arg = "_.A" THEN "A" ELSE "B"

\* the mock environment built on client.getEnvVariables(): a variable is
\* envVariables[name]?.toString()
MockEnvironment(envVariables) == [data |-> EmptyMap, overrides |-> envVariables]

\* an argument as processCookieTemplate uses it: with env variables loaded
\* and a leading `_.` it is `{{ ${arg} }}` resolved on the mock environment
ResolveArgument(arg, loaded, envVariables) ==
    IF loaded /\ IsEnvReference(arg)
    THEN resolve(MockEnvironment(envVariables), DefaultOptions,
                 <<Var(ReferenceName(arg))>>, 1)
    ELSE Resolved(<<Lit(arg)>>)

\* generateDomainAlternatives(domain) for h.com
generateDomainAlternatives(domain) == IF domain = "h.com" THEN <<".h.com">> ELSE <<>>

\* the cookies of the jar: a session cookie and one for every text a
\* variable may resolve to, each with its key as value
DirectiveCookieKeys == {"sid", "a", "o", "B", "3000"}
DirectiveJar ==
    [k \in {getCookieKey(key, "h.com") : key \in DirectiveCookieKeys} |->
        [key |-> k[2], value |-> k[2], domain |-> "h.com", path |-> "/",
         secure |-> FALSE, hostOnly |-> FALSE, creation |-> 0, lastAccessed |-> 0,
         expires |-> Absent, maxAge |-> Absent]]

\* the arguments of the cookie directives: a url and a key
CookieDirectiveArgs ==
    {<<"cookie", "https://h.com/", key>> : key \in {"sid", "_.A", "_.B"}}

\* processCookieTemplate(args, client) returns the value of the cookie
\* found for the key on the url's domain or its alternatives, else ""
ProcessCookieTemplate(args, loaded) ==
    /\ resolution = NotCalled
    /\ loaded \/ environment.overrides = EmptyMap
    /\ LET key == ResolveArgument(args[3], loaded, environment.overrides)
           domain == ParseUrl(args[2]).hostname
           domains == <<domain>> \o generateDomainAlternatives(domain)
           found == {i \in DOMAIN domains :
                        getCookie(jar["A"], TextOf(key.spans), domains[i], now).returned # {}}
           first == CHOOSE i \in found : \A j \in found : i <= j
       IN  IF key.kind # "ok"
           THEN /\ resolution' = [kind |-> "thrown", args |-> args, loaded |-> loaded,
                                  key |-> "", value |-> ""]
                /\ UNCHANGED jar
           ELSE /\ resolution' =
                    [kind |-> "cookie", args |-> args, loaded |-> loaded,
                     key |-> TextOf(key.spans),
                     value |-> IF found = {} THEN ""
                               ELSE (CHOOSE cookie \in
                                        getCookie(jar["A"], TextOf(key.spans),
                                                  domains[first], now).returned : TRUE).value]
                /\ jar' = [jar EXCEPT !["A"] = cleanupExpiredCookies(@, now)]
    /\ UNCHANGED <<collection, now, stack, owner, calls, result, warnings, cache,
                   executionStacks, file, caches, ops, driverCalls, environment, tree, node,
                   table, cookieCall, extraction, prompt>>

DirectiveInit ==
    /\ collection = SpecExample
    /\ ChainsIdle!1 /\ ChainsIdle!2 /\ ChainsIdle!3 /\ ChainsIdle!4 /\ ChainsIdle!5
    /\ ChainsIdle!6 /\ ChainsIdle!7 /\ ChainsIdle!8
    /\ jar = [c \in Clients |-> IF c = "A" THEN DirectiveJar ELSE EmptyMap]
    /\ DriversIdle
    /\ UnitsIdle
    /\ environment \in Environments
    /\ tree = ExampleTree
    /\ resolution = NotCalled
    /\ node = NotCalled

DirectiveNext ==
    \E args \in CookieDirectiveArgs, loaded \in BOOLEAN : ProcessCookieTemplate(args, loaded)

DirectiveSpec == DirectiveInit /\ [][DirectiveNext]_vars

\* C38: when the key of a cookie directive is written `_.NAME` and NAME has
\* a value in the client's environment, the directive looks up the cookie
\* whose key is the text `{{ _.NAME }}` resolves to in a request field of the
\* client (the override if NAME is overridden, else the base value), and
\* returns that cookie's value.
C38_ArgumentResolvesAsField ==
    (/\ resolution.kind \in {"cookie", "thrown"}
     /\ IsEnvReference(resolution.args[3])
     /\ IsDefinedVariable(ReferenceName(resolution.args[3])))
        => LET field == resolve(environment, DefaultOptions,
                                <<Var(ReferenceName(resolution.args[3]))>>, 1)
           IN  field.kind = "ok"
                  => /\ resolution.kind = "cookie"
                     /\ resolution.key = TextOf(field.spans)
                     /\ TextOf(field.spans) \in DirectiveCookieKeys
                            => resolution.value = TextOf(field.spans)

(***************************************************************************)
(* parseTemplateArguments and processResponseTemplate on their own.  A     *)
(* directive as written is the sequence of its arguments, each the text    *)
(* between its quotes (or the bare word), separated by commas or spaces.   *)
(***************************************************************************)
\* what is written at position 3, 4 and 5 of a response directive
WrittenPaths == {"", " ", B64Wrapped, "$.access_token", "//token"}
WrittenModes == ExpiryModes \cup {"", "sometimes"}
WrittenAges == {"", "0", "1", "3600"}

WrittenDirectives ==
    LET mandatory == <<"response", "body", "req_auth">>
    IN  {mandatory}
        \cup {mandatory \o <<path>> : path \in WrittenPaths}
        \cup {mandatory \o <<path, mode>> : path \in WrittenPaths, mode \in WrittenModes}
        \cup {mandatory \o <<path, mode, age>> :
                path \in WrittenPaths, mode \in WrittenModes, age \in WrittenAges}

RECURSIVE parseTemplateArguments(_)
\* parseTemplateArguments(content): at a delimiter or at the end, the text
\* gathered is pushed, trimmed, if (current.trim())
parseTemplateArguments(written) ==
    IF written = <<>> THEN <<>>
    ELSE (IF Trim(Head(written)) # "" THEN <<Trim(Head(written))>> ELSE <<>>)
         \o parseTemplateArguments(Tail(written))

\* processTemplateString hands the parsed arguments to
\* processResponseTemplate, which builds the ResponseTemplate or throws
ParseTemplateArguments ==
    /\ extraction.kind = "written"
    /\ LET args == parseTemplateArguments(extraction.written)
       IN  extraction' =
            IF TemplateArgsValid(args)
            THEN [kind |-> "parsed", written |-> extraction.written, args |-> args,
                  template |-> ParseResponseTemplate(args)]
            ELSE [kind |-> "thrown", written |-> extraction.written, args |-> args,
                  template |-> ParseResponseTemplate(<<"response", "", "">>)]
    /\ ExtractionOnly

ArgumentInit ==
    /\ collection = SpecExample
    /\ ChainsIdle
    /\ DriversIdle
    /\ ResolutionIdle
    /\ table = {}
    /\ cookieCall = NotCalled
    /\ prompt = NotCalled
    /\ \E written \in WrittenDirectives : extraction = [kind |-> "written", written |-> written]

ArgumentSpec == ArgumentInit /\ [][ParseTemplateArguments]_vars

\* C39: the ResponseTemplate of a response directive takes its field from
\* the first argument written, its requestId from the second, its path from
\* the third, its expiry mode from the fourth and its maxAge from the fifth;
\* an argument written as an empty (or blank) quoted string counts as absent
\* at its own position.
C39_ArgumentsKeepTheirPosition ==
    extraction.kind \in {"parsed", "thrown"}
        => /\ extraction.kind = "parsed"
           /\ extraction.template =
                ParseResponseTemplate([i \in DOMAIN extraction.written |->
                                            Trim(extraction.written[i])])

(***************************************************************************)
(* validateTemplate and a strict resolve of the same string, one after the *)
(* other on the same environment.                                          *)
(***************************************************************************)
\* InsomniaConfigEnvironment.hasVariable(key)
hasVariable(env, key) == key \in DOMAIN env.data \/ key \in DOMAIN env.overrides

\* getUndefinedVariables(template)
getUndefinedVariables(env, template) ==
    SelectSeq(extractVariableNames(template), LAMBDA varName : ~hasVariable(env, varName))

\* validateTemplate(template)
validateTemplate(env, template) ==
    [isValid |-> Len(getUndefinedVariables(env, template)) = 0,
     undefinedVariables |-> getUndefinedVariables(env, template),
     allVariables |-> extractVariableNames(template)]

\* a caller calls resolver.validateTemplate(template)
ValidateTemplate(template) ==
    /\ resolution = NotCalled
    /\ resolution' = [kind |-> "validated", template |-> template,
                      validation |-> validateTemplate(environment, template)]
    /\ UNCHANGED <<collection, now, stack, owner, calls, result, warnings, cache,
                   executionStacks, file, caches, ops, driverCalls, environment, tree, node,
                   jar, table, cookieCall, extraction, prompt>>

\* the caller then calls resolve(template) on a strict resolver
ResolveStrict ==
    /\ resolution.kind = "validated"
    /\ LET r == resolve(environment, [strict |-> TRUE, undefinedReplacement |-> ""],
                        resolution.template, 1)
       IN  resolution' = [kind |-> r.kind, spans |-> r.spans, name |-> r.name,
                          template |-> resolution.template,
                          validation |-> resolution.validation]
    /\ UNCHANGED <<collection, now, stack, owner, calls, result, warnings, cache,
                   executionStacks, file, caches, ops, driverCalls, environment, tree, node,
                   jar, table, cookieCall, extraction, prompt>>

ValidateInit ==
    /\ collection = SpecExample
    /\ ChainsIdle
    /\ DriversIdle
    /\ UnitsIdle
    /\ environment \in Environments
    /\ tree = ExampleTree
    /\ resolution = NotCalled
    /\ node = NotCalled

ValidateNext ==
    \/ \E template \in Templates : ValidateTemplate(template)
    \/ ResolveStrict

ValidateSpec == ValidateInit /\ [][ValidateNext]_vars

\* C34: when validateTemplate(t) has answered isValid (no undefined
\* variables), resolve(t) on a strict resolver of the same environment does
\* not fail with the undefined-variable error.
C34_ValidResolvesInStrictMode ==
    (/\ resolution.kind \notin {"none", "validated"}
     /\ resolution.validation.isValid)
        => resolution.kind # "UndefinedVariable"

(***************************************************************************)
(* Paths of requests.  A collection is the sequence of its items, folders  *)
(* and requests; a name and a path are strings, kept as the sequence of    *)
(* their parts between "/" characters, so that join("/") is concatenation  *)
(* and split("/") gives the parts back.  A request's meta.id is unique.    *)
(***************************************************************************)
RequestItem(name, id) == [type |-> "request", name |-> name, id |-> id, children |-> <<>>]
FolderItem(name, children) ==
    [type |-> "folder", name |-> name, id |-> <<>>, children |-> children]

\* the names of requests ("a", "b", "a/b") and of folders
RequestNames == {<<"a">>, <<"b">>, <<"a", "b">>}
FolderNames == {<<"a">>, <<"b">>}

\* the items a collection may hold at position i: a request, or a folder of
\* one or two requests; an id tells where the request is
ChildrenAt(i) ==
    {<<RequestItem(n, <<i, 1>>)>> : n \in RequestNames}
    \cup {<<RequestItem(n, <<i, 1>>), RequestItem(m, <<i, 2>>)>> :
            n \in RequestNames, m \in RequestNames}
ItemsAt(i) ==
    {RequestItem(n, <<i>>) : n \in RequestNames}
    \cup {FolderItem(n, children) : n \in FolderNames, children \in ChildrenAt(i)}
ItemTrees ==
    {<<first>> : first \in ItemsAt(1)}
    \cup {<<first, second>> : first \in ItemsAt(1), second \in ItemsAt(2)}

RECURSIVE RequestsOf(_)
\* the requests of a collection, in the order of the traversal
RequestsOf(items) ==
    IF items = <<>> THEN <<>>
    ELSE (IF Head(items).type = "request" THEN <<Head(items)>>
          ELSE RequestsOf(Head(items).children))
         \o RequestsOf(Tail(items))

RECURSIVE findRequestPathByIdRecursive(_, _, _)
\* findRequestPathByIdRecursive(items, requestId, pathSegments): <<path>>
\* for the path found, <<>> for undefined
findRequestPathByIdRecursive(items, requestId, pathSegments) ==
    IF items = <<>> THEN <<>>
    ELSE LET item == Head(items)
             found == findRequestPathByIdRecursive(item.children, requestId,
                                                   pathSegments \o item.name)
         IN  IF item.type = "request" /\ item.id = requestId
             THEN <<pathSegments \o item.name>>
             ELSE IF item.type = "folder" /\ found # <<>> THEN found
             ELSE findRequestPathByIdRecursive(Tail(items), requestId, pathSegments)

RECURSIVE collectRequestNodes(_, _)
\* collectRequestNodes(items, pathSegments): the paths of all requests
collectRequestNodes(items, pathSegments) ==
    IF items = <<>> THEN <<>>
    ELSE (IF Head(items).type = "request" THEN <<pathSegments \o Head(items).name>>
          ELSE collectRequestNodes(Head(items).children, pathSegments \o Head(items).name))
         \o collectRequestNodes(Tail(items), pathSegments)

RECURSIVE findRequestNodeWithParents(_, _)
\* findRequestNodeWithParents(items, pathSegments): <<request>> for the
\* request found, <<>> for undefined; the first item named as the segment
\* decides
findRequestNodeWithParents(items, pathSegments) ==
    LET named == {i \in DOMAIN items : items[i].name = <<Head(pathSegments)>>}
        item == items[CHOOSE i \in named : \A j \in named : i <= j]
    IN  IF pathSegments = <<>> \/ named = {} THEN <<>>
        ELSE IF Len(pathSegments) = 1
        THEN IF item.type = "request" THEN <<item>> ELSE <<>>
        ELSE IF item.type = "folder"
        THEN findRequestNodeWithParents(item.children, Tail(pathSegments))
        ELSE <<>>

PathsOnly ==
    UNCHANGED <<collection, now, stack, owner, calls, result, warnings, cache,
                executionStacks, file, caches, ops, driverCalls, environment, tree, resolution,
                jar, table, cookieCall, extraction, prompt>>

\* client.findRequestPathById(requestId)
FindRequestPathById(requestId) ==
    /\ node.kind \in {"none", "request"}
    /\ node' = [kind |-> "path", id |-> requestId,
                path |-> findRequestPathByIdRecursive(tree, requestId, <<>>)]
    /\ PathsOnly

\* client.getRequestNodePaths(), of which the caller takes the k-th path
GetRequestNodePaths(k) ==
    /\ node.kind \in {"none", "request"}
    /\ k \in DOMAIN collectRequestNodes(tree, <<>>)
    /\ node' = [kind |-> "path", id |-> RequestsOf(tree)[k].id,
                path |-> <<collectRequestNodes(tree, <<>>)[k]>>]
    /\ PathsOnly

\* client.getRequestNode(path) (as client.request(path) does) with the path
\* obtained: the request the path leads to
GetRequestNodeByPath ==
    /\ node.kind = "path"
    /\ node.path # <<>>
    /\ node' = [kind |-> "request", id |-> node.id, path |-> node.path,
                request |-> findRequestNodeWithParents(tree, node.path[1])]
    /\ PathsOnly

PathInit ==
    /\ collection = SpecExample
    /\ ChainsIdle
    /\ DriversIdle
    /\ UnitsIdle
    /\ environment = NoEnvironment
    /\ tree \in ItemTrees
    /\ resolution = NotCalled
    /\ node = NotCalled

PathNext ==
    \/ \E requestId \in {<<1>>, <<2>>, <<1, 1>>, <<1, 2>>, <<2, 1>>, <<2, 2>>} :
            FindRequestPathById(requestId)
    \/ \E k \in 1..4 : GetRequestNodePaths(k)
    \/ GetRequestNodeByPath

PathSpec == PathInit /\ [][PathNext]_vars

\* C31: the path findRequestPathById gives for the id of a request of the
\* collection, and every path getRequestNodePaths lists for a request, leads
\* getRequestNode to that very request.
C31_PathLeadsToItsRequest ==
    (/\ node.kind = "request"
     /\ \E i \in DOMAIN RequestsOf(tree) : RequestsOf(tree)[i].id = node.id)
        => /\ node.request # <<>>
           /\ node.request[1].id = node.id

\* request(): the headers put on the wire are the headers of the resolved node
\* that have a name and a value and are not disabled; a later header replaces
\* an earlier one of the very same name
SentHeaders(headers) ==
    LET sent(h) == Truthy(h.name) /\ Truthy(h.value) /\ ~h.disabled
        kept == SelectSeq(headers, sent)
    IN  {<<kept[i].name, kept[i].value>> :
            i \in {j \in DOMAIN kept :
                     \A k \in DOMAIN kept : k > j => kept[k].name # kept[j].name}}

\* an enabled header of the request has the name of h, ignoring case
ShadowedByEnabled(h) ==
    \E i \in DOMAIN OwnHeaders :
        ~OwnHeaders[i].disabled /\ SameName(OwnHeaders[i].name, h.name)

\* C33: every header of an ancestor folder that is not disabled, has a name and
\* has a value is sent with the request, unless an enabled header of the
\* request has the same name ignoring case; a disabled header of the request
\* does not suppress it.
C33_InheritedHeaderSent ==
    node.kind = "ok"
        => \A i \in DOMAIN InheritedHeaders :
              ~ShadowedByEnabled(InheritedHeaders[i])
                 => <<InheritedHeaders[i].name, InheritedHeaders[i].value>>
                        \in SentHeaders(node.headers)

\* the request's only header A is disabled, the root folder gives A: 1, and
\* nothing named A is sent
C33_DisabledHeaderSuppresses ==
    node.kind = "ok"
        => ~(/\ \E i \in DOMAIN InheritedHeaders : InheritedHeaders[i].name = <<Lit("A")>>
             /\ \A i \in DOMAIN OwnHeaders : OwnHeaders[i].disabled
             /\ OwnHeaders # <<>>
             /\ SentHeaders(node.headers) = {})

\* C32: a directive in a disabled header or in a disabled body parameter is
\* never resolved: the request it names is never executed for it and nothing is
\* written to the cache.  In the collection whose only directives are in a
\* disabled header and a disabled parameter of req_off, req_auth never runs and
\* the cache of every client stays empty.
C32_DisabledDirectiveNeverResolved ==
    collection = DisabledCollection
        => \A ch \in Chains :
              /\ \A i \in DOMAIN stack[ch] : stack[ch][i].req # "req_auth"
              /\ cache[owner[ch]] = EmptyMap

(***************************************************************************)
(* The three cache drivers side by side.  One caller makes the same call   *)
(* on an InMemoryCacheDriver, a single-file FileCacheDriver and an         *)
(* SQLiteCacheDriver at the same Date.now(), each call awaited before the  *)
(* next; the stores are cache["A"], file and caches, and ops[1] keeps what *)
(* each driver returned: the keys of the entries (get, has, getAll) and    *)
(* the number (size, clear, cleanup; 1 for a delete that returned true).   *)
(***************************************************************************)
MaxLockstepCalls == 3
CacheDrivers == {"memory", "file", "sqlite"}
LockstepKeys == {"k1", "k2", "K1"}
KeyPatterns == {"k1", "k*"}

\* ClearCacheOptions: not passed, or passed with expiredOnly and keyPattern
\* ("" when the pattern is not set)
NoOptions == [given |-> FALSE, expiredOnly |-> FALSE, keyPattern |-> ""]
ClearOptionsSet ==
    {NoOptions}
    \cup {[given |-> TRUE, expiredOnly |-> e, keyPattern |-> p] :
            e \in BOOLEAN, p \in KeyPatterns \cup {""}}
ExpiredOnly == [given |-> TRUE, expiredOnly |-> TRUE, keyPattern |-> ""]

\* new RegExp(`^${keyPattern.replace(/\*/g, '.*')}$`).test(key)
RegexTest(keyPattern, key) ==
    IF keyPattern = "k*" THEN key \in {"k1", "k2"} ELSE key = keyPattern

\* key LIKE keyPattern.replace(/\*/g, "%").replace(/\?/g, "_"): LIKE does not
\* tell the case of ASCII letters apart
LikeTest(keyPattern, key) ==
    IF keyPattern = "k*" THEN key \in {"k1", "k2", "K1"}
    ELSE IF keyPattern = "k1" THEN key \in {"k1", "K1"}
    ELSE key = keyPattern

Outcome(store, keys, count) == [store |-> store, keys |-> keys, count |-> count]

\* InMemoryCacheDriver.clear
MemoryClear(store, options, t) ==
    LET shouldClear(k) ==
            IF ~options.given THEN TRUE
            ELSE IF options.expiredOnly THEN IsExpired(store[k], t)
            ELSE IF options.keyPattern # "" THEN RegexTest(options.keyPattern, k)
            ELSE TRUE
        cleared == {k \in DOMAIN store : shouldClear(k)}
    IN  Outcome(Without(store, cleared), {}, Cardinality(cleared))

\* FileCacheDriver.clear
FileClear(entries, options, t) ==
    LET shouldClear(k) ==
            IF options.expiredOnly THEN IsExpired(entries[k], t)
            ELSE IF options.keyPattern # "" THEN RegexTest(options.keyPattern, k)
            ELSE TRUE
        keysToDelete == {k \in DOMAIN entries : shouldClear(k)}
    IN  IF ~options.given THEN Outcome(EmptyMap, {}, Cardinality(DOMAIN entries))
        ELSE Outcome(Without(entries, keysToDelete), {}, Cardinality(keysToDelete))

\* SQLiteCacheDriver.clear: DELETE ... WHERE 1=1 [AND expires_at IS NOT NULL AND
\* expires_at <= now] [AND key LIKE pattern]
SqlClear(rows, options, t) ==
    LET where(k) ==
            /\ options.expiredOnly => IsExpired(rows[k], t)
            /\ options.keyPattern # "" => LikeTest(options.keyPattern, k)
        changes == {k \in DOMAIN rows : where(k)}
    IN  IF ~options.given THEN Outcome(EmptyMap, {}, Cardinality(DOMAIN rows))
        ELSE Outcome(Without(rows, changes), {}, Cardinality(changes))

\* an operation of the InMemoryCacheDriver on its Map
MemoryCall(store, op, key, ttl, options, t) ==
    CASE op = "set" -> Outcome((key :> NewEntry("v", t, ttl)) @@ store, {}, 0)
      [] op \in {"get", "has"} ->
            IF key \notin DOMAIN store THEN Outcome(store, {}, 0)
            ELSE IF IsExpired(store[key], t) THEN Outcome(Without(store, {key}), {}, 0)
            ELSE Outcome(store, {key}, 0)
      [] op = "delete" ->
            Outcome(Without(store, {key}), {}, IF key \in DOMAIN store THEN 1 ELSE 0)
      [] op = "getAll" -> Outcome(Without(store, ExpiredKeys(store, t)), LiveKeys(store, t), 0)
      [] op = "size" -> Outcome(store, {}, Cardinality(DOMAIN store))
      [] op = "cleanup" -> MemoryClear(store, ExpiredOnly, t)
      [] OTHER -> MemoryClear(store, options, t)

\* an operation of the FileCacheDriver from its read of the file to its
\* return, the write of the file included
FileCall(entries, op, key, ttl, options, t) ==
    LET o == AfterRead([IdleOp EXCEPT !.driver = "file", !.op = op, !.key = key, !.ttl = ttl],
                       entries, t)
    IN  CASE op = "cleanup" -> FileClear(entries, ExpiredOnly, t)
          [] op = "clear" -> FileClear(entries, options, t)
          [] OTHER ->
                Outcome(IF o.pc = "write" THEN o.entries ELSE entries, o.keys,
                        IF op = "delete" THEN (IF key \in DOMAIN entries THEN 1 ELSE 0)
                        ELSE o.count)

\* an operation of the SQLiteCacheDriver on the rows of its table, one row
\* per key (key TEXT UNIQUE, INSERT OR REPLACE); expires_at is NULL (0 here)
\* when the entry has no expiry
SqlCall(rows, op, key, ttl, options, t) ==
    CASE op = "set" -> Outcome((key :> NewEntry("v", t, ttl)) @@ rows, {}, 0)
      [] op \in {"get", "has"} ->
            IF key \notin DOMAIN rows THEN Outcome(rows, {}, 0)
            ELSE IF IsExpired(rows[key], t) THEN Outcome(Without(rows, {key}), {}, 0)
            ELSE Outcome(rows, {key}, 0)
      [] op = "delete" ->
            Outcome(Without(rows, {key}), {}, IF key \in DOMAIN rows THEN 1 ELSE 0)
      [] op = "getAll" ->
            Outcome(Without(rows, ExpiredKeys(rows, t)),
                    {k \in DOMAIN rows : rows[k].expiresAt = 0 \/ rows[k].expiresAt > t}, 0)
      [] op = "size" -> Outcome(rows, {}, Cardinality(DOMAIN rows))
      [] op = "cleanup" ->
            Outcome(Without(rows, ExpiredKeys(rows, t)), {},
                    Cardinality(ExpiredKeys(rows, t)))
      [] OTHER -> SqlClear(rows, options, t)

LockstepOps == DriverOps \cup {"clear", "cleanup"}

\* the caller makes one call on each of the three drivers
LockstepCall(op, key, ttl, options) ==
    /\ driverCalls < MaxLockstepCalls
    /\ key \in (IF op \in {"get", "has", "set", "delete"} THEN LockstepKeys ELSE {""})
    /\ ttl \in (IF op = "set" THEN TtlOptions ELSE {0})
    /\ options \in (IF op = "clear" THEN ClearOptionsSet ELSE {NoOptions})
    /\ LET memory == MemoryCall(cache["A"], op, key, ttl, options, now)
           single == FileCall(file, op, key, ttl, options, now)
           sqlite == SqlCall(caches, op, key, ttl, options, now)
       IN  /\ cache' = [cache EXCEPT !["A"] = memory.store]
           /\ file' = single.store
           /\ caches' = sqlite.store
           /\ ops' = [ops EXCEPT ![1] =
                 [driver |-> "all", op |-> op, key |-> key, ttl |-> ttl, pc |-> "done",
                  entries |-> EmptyMap, at |-> now, options |-> options,
                  keys |-> [memory |-> memory.keys, file |-> single.keys,
                            sqlite |-> sqlite.keys],
                  count |-> [memory |-> memory.count, file |-> single.count,
                             sqlite |-> sqlite.count]]]
    /\ driverCalls' = driverCalls + 1
    /\ UNCHANGED <<collection, now, stack, owner, calls, result, warnings, executionStacks,
                   jar, table, cookieCall, extraction, prompt,
                   environment, tree, resolution, node>>

LockstepInit == Init /\ collection = SpecExample

LockstepNext ==
    \/ \E op \in LockstepOps, key \in LockstepKeys \cup {""}, ttl \in TtlOptions,
          options \in ClearOptionsSet : LockstepCall(op, key, ttl, options)
    \/ Tick

LockstepSpec == LockstepInit /\ [][LockstepNext]_vars

\* C37: the in-memory, single-file and SQLite cache drivers are
\* observationally equivalent: called with the same arguments at the same
\* clock, in the same sequence, the three return the same entries and the same
\* numbers, clear with both expiredOnly and keyPattern included.
C37_DriversReturnTheSame ==
    ops[1].driver = "all"
        => \A d, e \in CacheDrivers :
              /\ ops[1].keys[d] = ops[1].keys[e]
              /\ ops[1].count[d] = ops[1].count[e]

====
